---- MODULE Spec2Model ----
\* Estimator engine of pauxy (src/pauxy/estimators.py): the mixed estimator
\* accumulator (class Mixed) and the back-propagation accumulator (class
\* BackPropagation), with exact rational/complex arithmetic in place of
\* floating point and one marker (NaN) for every non-finite value.
EXTENDS Integers, Sequences, FiniteSets, Bags, TLC

\* ---------------------------------------------------------------- bounds
\* walkers accumulated, over all ranks, between two resets
MaxSeen == 3
\* qmc.nsteps of the run
MaxSteps == 1
\* sizes of the population handed to one update call
PopulationSizes == {1, 2}
\* readings of the wall clock
ClockReadings == {0, 1}
\* measurement periods (qmc.nmeasure) drawn
Measures == {1, 2}
\* process counts drawn: one process runs without a communicator (comm is
\* None), several run under MPI
ProcCounts == {1, 2}
\* largest back-propagation window length (nback_prop) drawn
MaxNbp == 2
\* the largest stack_size and num_slices handed to update_stack
MaxStack == 12
MaxSlices == 12

\* ------------------------------------------------------- complex numbers
\* A numpy complex128 value is modelled exactly: the finite value
\* (re + im*i)/den is the triple <<re, im, den>> in lowest terms with
\* den > 0, and every non-finite value (nan, inf) is the one value NaN.
Abs(x) == IF x < 0 THEN -x ELSE x

RECURSIVE GCD(_, _)
GCD(a, b) == IF b = 0 THEN a ELSE GCD(b, a % b)

\* (a + b*i)/d with d # 0, in lowest terms
Norm(a, b, d) ==
    IF d = 1 THEN <<a, b, 1>>
    ELSE LET g == GCD(GCD(Abs(a), Abs(b)), Abs(d))
         IN  IF d < 0 THEN <<(-a) \div g, (-b) \div g, (-d) \div g>>
                      ELSE <<a \div g, b \div g, d \div g>>

Cx(re, im) == <<re, im, 1>>
NaN == <<0, 0, 0>>
CInt(n) == <<n, 0, 1>>
CZero == CInt(0)
IsFinite(x) == x[3] # 0
CAdd(x, y) ==
    IF x[3] = 0 \/ y[3] = 0 THEN NaN
    ELSE IF x[3] = y[3] THEN Norm(x[1] + y[1], x[2] + y[2], x[3])
    ELSE Norm(x[1] * y[3] + y[1] * x[3], x[2] * y[3] + y[2] * x[3], x[3] * y[3])
CNeg(x) == <<-x[1], -x[2], x[3]>>
CSub(x, y) == CAdd(x, CNeg(y))
CMul(x, y) ==
    IF x[3] = 0 \/ y[3] = 0 THEN NaN
    ELSE Norm(x[1] * y[1] - x[2] * y[2], x[1] * y[2] + x[2] * y[1], x[3] * y[3])
\* numpy division: a zero (or non-finite) divisor gives a non-finite value
\* and a RuntimeWarning, never an exception.
CDiv(x, y) ==
    IF x[3] = 0 \/ y[3] = 0 \/ (y[1] = 0 /\ y[2] = 0) THEN NaN
    ELSE Norm(y[3] * (x[1] * y[1] + x[2] * y[2]),
              y[3] * (x[2] * y[1] - x[1] * y[2]),
              x[3] * (y[1] * y[1] + y[2] * y[2]))
\* x.real and x.imag, as complex values
CReal(x) == IF x[3] = 0 THEN NaN ELSE Norm(x[1], 0, x[3])
CImag(x) == IF x[3] = 0 THEN NaN ELSE Norm(x[2], 0, x[3])

\* ---------------------------------------------------------- EstimatorEnum
ns_weight == 0
ns_enumer == 1
ns_edenom == 2
ns_eproj == 3
ns_ekin == 4
ns_epot == 5
ns_time == 6
\* Mixed.nreg: the scalar columns; the buffer holds nreg + G.size entries
\* and the model keeps one entry of the flattened density matrix.
Mixed_nreg == 7
Mixed_Gsize == 1
MixedIdx == 0 .. (Mixed_nreg + Mixed_Gsize - 1)
GIdx == (ns_time + 1) .. (Mixed_nreg + Mixed_Gsize - 1)

\* -------------------------------------------------------------- the state
VARIABLES
    \* run configuration, fixed at construction
    free_projection,        \* the flag the driver passes to update
    mixed_rdm,              \* Mixed.rdm
    comm,                   \* "None" or "MPI"
    nprocs,                 \* number of processes; ranks are 0 .. nprocs-1
    qmc_nsteps,             \* qmc.nsteps
    qmc_nmeasure,           \* qmc.nmeasure
    \* the mixed accumulator, per rank
    mixed_estimates,        \* Mixed.estimates
    mixed_global_estimates, \* Mixed.global_estimates
    \* the leader's datasets
    mixed_output_index,     \* Mixed.output.index (H5EstimatorHelper cursor)
    mixed_pushed,           \* rows the last call pushed to 'energies' (<<>> or one row)
    mixed_dm_pushed,        \* rows the last call pushed to the density-matrix dataset
    \* environment
    clock,                  \* last reading of time.time()
    raised,                 \* "none", or the exception that ended the run
    \* history
    mixed_seen,             \* per rank, the bag of walkers accumulated since the last reset
    calls,                  \* the last two handlers called
    print_args,             \* <<nmeasure, t1>> of the print_step just called, else <<>>
    \* back-propagation: configuration, fixed at construction
    trial_type,             \* trial.type: "UHF" or "GHF"
    system_name,            \* system.name: "Hubbard" or "Generic"
    bp_nmax,                \* BackPropagation.nmax (nback_prop)
    restore_weights,        \* "None", "full" or another policy
    bp_rdm,                 \* BackPropagation.rdm
    nwalkers,               \* walkers per rank
    \* the back-propagation accumulator, per rank
    bp_estimates,           \* BackPropagation.estimates
    bp_global_estimates,    \* BackPropagation.global_estimates
    \* the leader's datasets
    bp_output_index,        \* BackPropagation.output.index
    bp_pushed,              \* rows the last call pushed to 'energies'
    bp_dm_pushed,           \* rows the last call pushed to the Green's function dataset
    \* the population, per rank: each walker's phi_old and phi_bp
    walkers,
    \* the driver
    step,                   \* the simulation step
    pc,                     \* the call the driver makes next
    \* history
    bp_seen,                \* per rank, what was accumulated since the last reset
    bp_passes,              \* per rank, the accumulation passes since the last reset
    bp_invoked,             \* per rank, the routine the last update call invoked
    \* evaluated once per run: what update computes from each pair
    \* (back-propagated determinant, old snapshot) of the trial's Dets
    bp_vecs,
    \* the kernels called on their own: the arguments and the last result
    kern_A,                 \* the matrix handed to gab as bra and as ket
    kern_sys,               \* the system handed to local_energy
    kern_G,                 \* the Green's function handed to local_energy
    kern_call,              \* "none", or the kernel called last
    kern_out,               \* what the call returned or raised
    \* update_stack(stack_size, num_slices) called on its own
    stack_size,             \* the argument, and the local it is assigned to
    num_slices,             \* the argument
    lower_bound,            \* the local of the first loop
    upper_bound,            \* the local of the second loop
    stack_pc,               \* "idle", "lower", "upper", "select" or "done"
    stack_ret,              \* the value returned, 0 before the return
    \* the container (class Estimators) with its three accumulators
    bp_on,                  \* Estimators.back_propagation
    h5f,                    \* per rank, Estimators.h5f: "unset", "file" or "None"
    rank_raised,            \* per rank, "none" or the exception that ended it
    wrote,                  \* the ranks that have pushed a row or flushed the file
    \* the ITCF accumulator: configuration
    itcf_tmax,              \* the option tmax, in units of time
    qmc_dt,                 \* qmc.dt, in the same units
    itcf_stable,            \* ITCF.stable
    itcf_mode,              \* ITCF.mode: "full", "diagonal" or a list of pairs
    itcf_nmax,              \* ITCF.nmax
    itcf_nprop_tot,         \* ITCF.nprop_tot
    \* the ITCF accumulator, per rank
    spgf,                   \* ITCF.spgf
    spgf_global,            \* ITCF.spgf_global
    \* the leader's dataset
    itcf_output_index,      \* ITCF.rspace_unit.index
    itcf_pushed,            \* rows the last call pushed to 'real_space'
    \* per rank, every walker's phi_init
    phi_init,
    \* history
    itcf_fired,             \* per rank, whether the last update recomputed the buffer
    itcf_seen,              \* per rank, the walkers of the last recomputation
    \* per walker that can reach calculate_spgf in the run, what it reads of
    \* the walker and what the walker adds to a zeroed buffer
    itcf_table

mixed_vars == <<free_projection, mixed_rdm, comm, nprocs, qmc_nsteps, qmc_nmeasure,
                mixed_estimates, mixed_global_estimates, mixed_output_index,
                mixed_pushed, mixed_dm_pushed, clock, raised, mixed_seen, calls,
                print_args>>

bp_vars == <<trial_type, system_name, bp_nmax, restore_weights, bp_rdm, nwalkers, bp_estimates,
             bp_global_estimates, bp_output_index, bp_pushed, bp_dm_pushed,
             walkers, step, pc, bp_seen, bp_passes, bp_invoked, bp_vecs>>

\* what only the mixed accumulator owns
mixed_own == <<free_projection, mixed_rdm, qmc_nmeasure, mixed_estimates,
               mixed_global_estimates, mixed_output_index, mixed_pushed,
               mixed_dm_pushed, clock, mixed_seen, calls, print_args>>

stack_vars == <<stack_size, num_slices, lower_bound, upper_bound, stack_pc,
                stack_ret>>

kern_vars == <<kern_A, kern_sys, kern_G, kern_call, kern_out, stack_vars>>

est_vars == <<bp_on, h5f, rank_raised, wrote, itcf_tmax, qmc_dt, itcf_stable,
              itcf_mode, itcf_nmax, itcf_nprop_tot, spgf, spgf_global,
              itcf_output_index, itcf_pushed, phi_init, itcf_fired, itcf_seen,
              itcf_table>>

\* what the accumulators' handlers leave alone
aux_vars == <<kern_vars, est_vars>>

vars == <<mixed_vars, bp_vars, aux_vars>>

Ranks == 0 .. (nprocs - 1)

\* ------------------------------------------------------------ the walkers
\* What Mixed.update reads of a walker: its weight, the tuple (E, T, V) its
\* local_energy returns, its overlap ot with the trial state and (one entry
\* of) its Green's function G.  Energies are complex, E = T + V.
MixedWalkers ==
    { [weight |-> 1, E |-> Cx(3, 1),  T |-> Cx(1, 1),  V |-> Cx(2, 0),
       ot |-> CInt(2),  G |-> Cx(1, 1)],
      [weight |-> 2, E |-> Cx(3, 1),  T |-> Cx(1, 1),  V |-> Cx(2, 0),
       ot |-> CInt(2),  G |-> Cx(1, 1)],
      [weight |-> 2, E |-> Cx(2, -1), T |-> Cx(-1, 0), V |-> Cx(3, -1),
       ot |-> CInt(-1), G |-> Cx(3, 0)] }

Populations == UNION { [1 .. n -> MixedWalkers] : n \in PopulationSizes }

RECURSIVE SeqToBag(_)
SeqToBag(ws) ==
    IF ws = <<>> THEN EmptyBag ELSE SetToBag({Head(ws)}) (+) SeqToBag(Tail(ws))

SeenTotal == LET RECURSIVE Tot(_)
                 Tot(r) == IF r < 0 THEN 0
                           ELSE BagCardinality(mixed_seen[r]) + Tot(r - 1)
             IN  Tot(nprocs - 1)

\* ---------------------------------------------------------- class Mixed
ZeroBuffer == [i \in MixedIdx |-> CZero]

\* Mixed.__init__: zeroed buffers, the time field seeded with time.time()
Mixed_init_estimates(t) == [ZeroBuffer EXCEPT ![ns_time] = CInt(t)]

\* rows of the 'energies' dataset: (self.nmeasure + 1, self.nreg)
Mixed_nmeasure == qmc_nsteps \div qmc_nmeasure
Mixed_output_rows == Mixed_nmeasure + 1

\* the importance-sampled loop body of Mixed.update, for one walker
Mixed_update_is(es, w, rdmflag) ==
    [i \in MixedIdx |->
        CASE i = ns_enumer -> CAdd(es[i], CMul(CInt(w.weight), CReal(w.E)))
          [] i = ns_ekin   -> CAdd(es[i], CMul(CInt(w.weight), CReal(w.T)))
          [] i = ns_epot   -> CAdd(es[i], CMul(CInt(w.weight), CReal(w.V)))
          [] i = ns_weight -> CAdd(es[i], CInt(w.weight))
          [] i = ns_edenom -> CAdd(es[i], CInt(w.weight))
          [] i \in GIdx /\ rdmflag ->
                              CAdd(es[i], CMul(CInt(w.weight), CReal(w.G)))
          [] OTHER         -> es[i]]

\* the free-projection loop body of Mixed.update, for one walker
Mixed_update_fp(es, w) ==
    [i \in MixedIdx |->
        CASE i = ns_enumer -> CAdd(es[i], CMul(CMul(CInt(w.weight), w.E), w.ot))
          [] i = ns_weight -> CAdd(es[i], CInt(w.weight))
          [] i = ns_edenom -> CAdd(es[i], CMul(CInt(w.weight), w.ot))
          [] OTHER         -> es[i]]

\* Mixed.update: the loop over psi.walkers
RECURSIVE Mixed_update(_, _, _, _)
Mixed_update(es, ws, fp, rdmflag) ==
    IF ws = <<>> THEN es
    ELSE Mixed_update(IF fp THEN Mixed_update_fp(es, Head(ws))
                            ELSE Mixed_update_is(es, Head(ws), rdmflag),
                      Tail(ws), fp, rdmflag)

\* mutants of Mixed.zero: an entry, or the global buffer, left as it was
Mixed_zero_estimates_keep_weight(es, t) ==
    [i \in DOMAIN es |->
        IF i = ns_time THEN CInt(t) ELSE IF i = ns_weight THEN es[i] ELSE CZero]
Mixed_zero_global_skip(glob) == glob

\* Mixed.zero on the buffers es and glob, with t the reading of time.time()
Mixed_zero_estimates(es, t) ==
    [i \in DOMAIN es |-> IF i = ns_time THEN CInt(t) ELSE CZero]
Mixed_zero_global(glob) == [i \in DOMAIN glob |-> CZero]

\* mutant: the measurement count left out of the divisor
Mixed_denom_no_nmeasure(es, P, m) == CMul(es[ns_edenom], CInt(P))

\* denom = es[ns.edenom]*nprocs / nmeasure
Mixed_denom(es, P, m) == CDiv(CMul(es[ns_edenom], CInt(P)), CInt(m))

\* mutant: a zero denominator guarded, the sums left as they are
Mixed_normalise_guarded(es, P, m, t) ==
    LET denom == CDiv(CMul(es[ns_edenom], CInt(P)), CInt(m))
    IN  [i \in MixedIdx |->
            CASE i = ns_time -> CDiv(CSub(CInt(t), es[i]), CInt(P))
              [] i \in {ns_eproj, ns_ekin, ns_epot} /\ denom # CZero ->
                    CDiv(es[IF i = ns_eproj THEN ns_enumer ELSE i], denom)
              [] OTHER -> es[i]]

\* Mixed.print_step up to the reduction: the in-place normalisation of the
\* local buffer, with t the reading of time.time()
Mixed_normalise(es, P, m, t) ==
    LET denom == Mixed_denom(es, P, m)
    IN  [i \in MixedIdx |->
            CASE i = ns_eproj -> CDiv(es[ns_enumer], denom)
              [] i = ns_ekin  -> CDiv(es[i], denom)
              [] i = ns_epot  -> CDiv(es[i], denom)
              [] i = ns_time  -> CDiv(CSub(CInt(t), es[i]), CInt(P))
              [] OTHER        -> es[i]]

\* comm.Reduce(es, self.global_estimates, op=MPI.SUM): the element-wise sum
\* over the ranks, received by rank 0
RECURSIVE SumRanks(_, _, _)
SumRanks(bufs, i, r) ==
    IF r < 0 THEN CZero ELSE CAdd(SumRanks(bufs, i, r - 1), bufs[r][i])
MPI_Reduce_SUM(bufs) == [i \in MixedIdx |-> SumRanks(bufs, i, nprocs - 1)]

\* the row pushed to 'energies': self.global_estimates[:ns.time+1]/nmeasure
Mixed_row(glob, m) == [i \in 0 .. ns_time |-> CDiv(glob[i], CInt(m))]
\* the row pushed to the density-matrix dataset: rdm/denom/nmeasure
Mixed_dm_row(glob, denom, m) ==
    [i \in GIdx |-> CDiv(CDiv(glob[i], denom), CInt(m))]
\* the printed line: the real parts of the row
Mixed_printed(rw) == [i \in 0 .. ns_time |-> CReal(rw[i])]

\* Estimators.update -> Mixed.update on rank r with population ws
MixedUpdate(r, ws) ==
    /\ raised = "none"
    /\ SeenTotal + Len(ws) <= MaxSeen
    /\ mixed_estimates' =
          [mixed_estimates EXCEPT
              ![r] = Mixed_update(@, ws, free_projection, mixed_rdm)]
    /\ mixed_seen' = [mixed_seen EXCEPT ![r] = @ (+) SeqToBag(ws)]
    /\ mixed_pushed' = <<>>
    /\ mixed_dm_pushed' = <<>>
    /\ calls' = <<calls[2], "update">>
    /\ print_args' = <<>>
    /\ UNCHANGED <<free_projection, mixed_rdm, comm, nprocs, qmc_nsteps,
                   qmc_nmeasure, mixed_global_estimates, mixed_output_index,
                   clock, raised, bp_vars, aux_vars>>

\* Mixed.print_step(comm, nprocs, step, nmeasure=m), called by every rank:
\* t1 and t2 are the two readings of time.time() (in the normalisation and
\* in zero()).  Rank 0 raises when the dataset has no row left
\* (H5EstimatorHelper.push past the shape fixed at construction); the
\* other ranks have left the reduction and zero their buffers.
MixedPrintStep(m, t1, t2) ==
    /\ raised = "none"
    /\ LET es1   == [r \in Ranks |-> Mixed_normalise(mixed_estimates[r], nprocs, m, t1)]
           glob  == IF comm # "None" THEN MPI_Reduce_SUM(es1) ELSE es1[0]
           denom == Mixed_denom(mixed_estimates[0], nprocs, m)
           full  == mixed_output_index >= Mixed_output_rows
       IN  /\ mixed_pushed' = IF full THEN <<>> ELSE <<Mixed_row(glob, m)>>
           /\ mixed_dm_pushed' =
                 IF full \/ ~mixed_rdm THEN <<>>
                 ELSE <<Mixed_dm_row(glob, denom, m)>>
           /\ mixed_output_index' =
                 IF full THEN mixed_output_index ELSE mixed_output_index + 1
           /\ raised' = IF full THEN "push" ELSE "none"
           /\ mixed_estimates' =
                 [r \in Ranks |->
                     IF full /\ r = 0 THEN es1[0]
                     ELSE Mixed_zero_estimates(es1[r], t2)]
           /\ mixed_global_estimates' =
                 [r \in Ranks |->
                     IF full /\ r = 0 THEN glob
                     ELSE Mixed_zero_global(IF r = 0 THEN glob
                                            ELSE mixed_global_estimates[r])]
    /\ clock' = t2
    /\ mixed_seen' = [r \in Ranks |-> EmptyBag]
    /\ calls' = <<calls[2], "print_step">>
    /\ print_args' = <<m, t1>>
    /\ UNCHANGED <<free_projection, mixed_rdm, comm, nprocs, qmc_nsteps,
                   qmc_nmeasure, bp_vars, aux_vars>>

\* --------------------------------------------------------------- matrices
\* A numpy 2-d array is the sequence of its rows, each a sequence of
\* complex values.
CConj(x) == <<x[1], -x[2], x[3]>>

RECURSIVE CSumSeq(_)
CSumSeq(s) == IF s = <<>> THEN CZero ELSE CAdd(Head(s), CSumSeq(Tail(s)))

RECURSIVE CProdSeq(_)
CProdSeq(s) == IF s = <<>> THEN CInt(1) ELSE CMul(Head(s), CProdSeq(Tail(s)))

\* a sequence given by a rule, with every element evaluated once
Eager(s) == s \o <<>>

NRows(A) == Len(A)
NCols(A) == Len(A[1])
\* A.dot(B)
MatMul(A, B) ==
    Eager([i \in 1 .. NRows(A) |->
        Eager([j \in 1 .. NCols(B) |->
            CSumSeq([k \in 1 .. NRows(B) |-> CMul(A[i][k], B[k][j])])])])
\* A.T and A.conj().T
Transpose(A) ==
    Eager([i \in 1 .. NCols(A) |-> Eager([j \in 1 .. NRows(A) |-> A[j][i]])])
ConjT(A) ==
    Eager([i \in 1 .. NCols(A) |-> Eager([j \in 1 .. NRows(A) |-> CConj(A[j][i])])])
\* A[:, lo-1:hi]
Cols(A, lo, hi) ==
    Eager([i \in 1 .. NRows(A) |->
        Eager([j \in 1 .. (hi - lo + 1) |-> A[i][lo + j - 1]])])
\* A.flatten() of a 2-d array, row-major
RECURSIVE Flatten(_)
Flatten(A) == IF A = <<>> THEN <<>> ELSE Head(A) \o Flatten(Tail(A))
\* numpy.sum over a 2-d array
MatSum(A) == CSumSeq(Flatten(A))
\* numpy.identity(n), A + B and A - B
Identity(n) ==
    Eager([i \in 1 .. n |-> Eager([j \in 1 .. n |->
        IF i = j THEN CInt(1) ELSE CZero])])
MatAdd(A, B) ==
    Eager([i \in 1 .. NRows(A) |-> Eager([j \in 1 .. NCols(A) |->
        CAdd(A[i][j], B[i][j])])])
MatSub(A, B) ==
    Eager([i \in 1 .. NRows(A) |-> Eager([j \in 1 .. NCols(A) |->
        CSub(A[i][j], B[i][j])])])
\* c * A
\* scipy.linalg.det and scipy.linalg.inv of a 1x1 or 2x2 array (the
\* overlap matrices of one or two electrons); inv is defined for a
\* non-singular argument.
Det(O) ==
    IF NRows(O) = 1 THEN O[1][1]
    ELSE CSub(CMul(O[1][1], O[2][2]), CMul(O[1][2], O[2][1]))
Inv(O) ==
    IF NRows(O) = 1 THEN <<<<CDiv(CInt(1), O[1][1])>>>>
    ELSE LET d == Det(O)
         IN  << <<CDiv(O[2][2], d), CDiv(CNeg(O[1][2]), d)>>,
                <<CDiv(CNeg(O[2][1]), d), CDiv(O[1][1], d)>> >>

\* mutant: the bra left out of the product (gab_mod's formula)
gab_without_bra(A, B) == MatMul(B, Inv(MatMul(ConjT(A), B)))

\* gab(A, B) = B (A^dagger B)^{-1} A^dagger
gab(A, B) ==
    LET inv_O == Inv(MatMul(ConjT(A), B))
    IN  MatMul(B, MatMul(inv_O, ConjT(A)))

\* ------------------------------------------------- system, trial, walkers
\* The Hubbard system the accumulators are handed: two sites, one electron
\* of each spin, hopping -1 between the sites, U = 4.  Text is the hopping
\* matrix in the spin-orbital basis.
system ==
    LET o == CZero
        t == CInt(-1)
    IN  [name |-> "Hubbard", nbasis |-> 2, nup |-> 1, ndown |-> 1, U |-> CInt(4),
         T |-> << << <<o, t>>, <<t, o>> >>, << <<o, t>>, <<t, o>> >> >>,
         Text |-> << <<o, t, o, o>>, <<t, o, o, o>>,
                     <<o, o, o, t>>, <<o, o, t, o>> >>]

\* Determinants a walker can hold.  UHF: nbasis x (nup + ndown), the up
\* orbital in the first column and the down orbital in the second.  GHF:
\* 2*nbasis x (nup + ndown) spin-orbital columns.  Every pair of them has a
\* non-singular overlap (the precondition of gab).
UHFDets ==
    << << <<Cx(1, 0), Cx(1, 0)>>,
          <<Cx(0, 0), Cx(1, 0)>> >>,
       << <<Cx(1, 0), Cx(1, 0)>>,
          <<Cx(0, 1), Cx(2, 0)>> >> >>
GHFDets ==
    << << <<Cx(1, 0), Cx(0, 0)>>,
          <<Cx(0, 0), Cx(0, 0)>>,
          <<Cx(0, 0), Cx(1, 0)>>,
          <<Cx(0, 0), Cx(1, 0)>> >>,
       << <<Cx(1, 0), Cx(0, 0)>>,
          <<Cx(1, 0), Cx(0, 0)>>,
          <<Cx(0, 0), Cx(1, 0)>>,
          <<Cx(1, 0), Cx(2, 0)>> >> >>
Dets(tt) == IF tt = "UHF" THEN UHFDets ELSE GHFDets

\* trial.G.shape, as the number of entries of the flattened array:
\* (2, nbasis, nbasis) for a UHF trial, (2*nbasis, 2*nbasis) for a GHF one
trial_G_size(tt) ==
    IF tt = "UHF" THEN 2 * system.nbasis * system.nbasis
    ELSE (2 * system.nbasis) * (2 * system.nbasis)
\* trial.coeffs of the one-determinant GHF expansion, and trial.psi
trial_coeffs == <<CInt(1)>>
trial_psi(tt) == Dets(tt)[1]

\* What a firing update reads of one walker: the weight, the current
\* determinant phi (an index into Dets), the stored field-configuration
\* factors, and bp, the determinant the back-propagation routine returns
\* for the walker (for a GHF trial the one component of the expansion,
\* with reorthogonalisation factor 1).  The block get_block() returns
\* holds nback_prop of the factors.
PsiSamples ==
    { [weight |-> 1, phi |-> 1, bp |-> 2,
       weight_fac |-> <<CInt(2), Cx(1, 1), CInt(3)>>,
       cos_fac |-> <<CInt(1), CInt(2), CInt(1)>>],
      [weight |-> 2, phi |-> 2, bp |-> 1,
       weight_fac |-> <<CInt(3), CInt(2), CInt(1)>>,
       cos_fac |-> <<CInt(2), CInt(1), CInt(3)>>],
      [weight |-> 1, phi |-> 2, bp |-> 2,
       weight_fac |-> <<CInt(1), CInt(1), CInt(2)>>,
       cos_fac |-> <<CInt(0), CInt(1), CInt(1)>>] }
\* walker.field_configs.get_block(): (cos_fac, weight_fac) of the window
get_block(w, nmax) ==
    [cos_fac |-> SubSeq(w.cos_fac, 1, nmax),
     weight_fac |-> SubSeq(w.weight_fac, 1, nmax)]

\* wb.phi and wb.weights of the back-propagated walker
wb_phi(tt, b) == IF tt = "UHF" THEN Dets(tt)[b] ELSE <<Dets(tt)[b]>>
wb_weights == <<CInt(1)>>

\* the population one rank hands to a firing update, for n walkers
PsiInputs(n) == [1 .. n -> PsiSamples]

\* ------------------------------------------------- class BackPropagation
\* BackPropagation.nreg = len(['weight', 'E', 'T', 'V'])
BP_nreg == 4
BPIdx(tt) == 0 .. (BP_nreg + trial_G_size(tt) - 1)
BP_zero_buffer(tt) == [j \in BPIdx(tt) |-> CZero]
\* rows of the datasets: qmc.nsteps // self.nmax
BP_output_rows == qmc_nsteps \div bp_nmax

\* mutant: the cosine factors divided out under every policy
calculate_weight_factor_divide(walker, nmax, rw) ==
    LET b == get_block(walker, nmax)
    IN  CProdSeq([k \in 1 .. Len(b.weight_fac) |->
                     CDiv(b.weight_fac[k], b.cos_fac[k])])

\* the loop of calculate_weight_factor over zip(weight_fac, cos_fac)
RECURSIVE weight_factor_loop(_, _, _, _)
weight_factor_loop(factor, weight_fac, cos_fac, rw) ==
    IF weight_fac = <<>> \/ cos_fac = <<>> THEN factor
    ELSE LET f1 == CMul(factor, Head(weight_fac))
             f2 == IF rw = "full" THEN CDiv(f1, Head(cos_fac)) ELSE f1
         IN  weight_factor_loop(f2, Tail(weight_fac), Tail(cos_fac), rw)

\* BackPropagation.calculate_weight_factor
calculate_weight_factor(walker, nmax, rw) ==
    LET b == get_block(walker, nmax)
    IN  weight_factor_loop(CInt(1), b.weight_fac, b.cos_fac, rw)

\* the weight update_uhf applies to a walker
BP_weight(wnm, nmax, rw) ==
    IF rw # "None"
    THEN CMul(CInt(wnm.weight), calculate_weight_factor(wnm, nmax, rw))
    ELSE CInt(wnm.weight)

\* local_energy_hubbard(system, G) for G of shape (2, nbasis, nbasis)
local_energy_hubbard(sys, G) ==
    LET M  == sys.nbasis
        ke == MatSum([i \in 1 .. M |-> Eager([j \in 1 .. M |->
                        CAdd(CMul(sys.T[1][i][j], G[1][i][j]),
                             CMul(sys.T[2][i][j], G[2][i][j]))])])
        pe == CSumSeq([i \in 1 .. M |->
                        CMul(CMul(sys.U, G[1][i][i]), G[2][i][i])])
    IN  <<CAdd(ke, pe), ke, pe>>

\* A system with a dense two-body tensor (system.name = "Generic"): two
\* orbitals, a complex one-body matrix per spin, h2e[p][q][r][s] and ecore.
generic_system ==
    [name |-> "Generic", nbasis |-> 2, nup |-> 1, ndown |-> 1,
     T |-> << << <<CInt(1), Cx(0, 1)>>, <<Cx(0, -1), CInt(2)>> >>,
              << <<CInt(1), Cx(0, 1)>>, <<Cx(0, -1), CInt(2)>> >> >>,
     h2e |-> Eager([p \in 1 .. 2 |-> Eager([q \in 1 .. 2 |->
                Eager([r \in 1 .. 2 |-> Eager([t \in 1 .. 2 |->
                    IF p = r /\ q = t THEN CInt(p + q)
                    ELSE IF p = t /\ q = r THEN CInt(1) ELSE CZero])])])]),
     ecore |-> CInt(3)]

\* numpy.einsum('pqrs,pr,qs->', h2e, X, Y) and
\* numpy.einsum('pqrs,ps,qr->', h2e, X, Y)
einsum_pqrs_pr_qs(h2e, X, Y) ==
    LET n == 1 .. Len(h2e)
    IN  CSumSeq(Flatten(Flatten(Flatten(
            [p \in n |-> [q \in n |-> [r \in n |-> [t \in n |->
                CMul(CMul(h2e[p][q][r][t], X[p][r]), Y[q][t])]]]]))))
einsum_pqrs_ps_qr(h2e, X, Y) ==
    LET n == 1 .. Len(h2e)
    IN  CSumSeq(Flatten(Flatten(Flatten(
            [p \in n |-> [q \in n |-> [r \in n |-> [t \in n |->
                CMul(CMul(h2e[p][q][r][t], X[p][t]), Y[q][r])]]]]))))
\* numpy.einsum('ij,ji->', T, X)
einsum_ij_ji(T, X) ==
    CSumSeq(Flatten([i \in 1 .. Len(T) |-> [j \in 1 .. Len(T) |->
                        CMul(T[i][j], X[j][i])]]))
CHalf(x) == CDiv(x, CInt(2))

\* local_energy_generic(system, G) for G of shape (2, nbasis, nbasis)
local_energy_generic(sys, G) ==
    LET e1  == CAdd(einsum_ij_ji(sys.T[1], G[1]), einsum_ij_ji(sys.T[2], G[2]))
        euu == CHalf(CSub(einsum_pqrs_pr_qs(sys.h2e, G[1], G[1]),
                          einsum_pqrs_ps_qr(sys.h2e, G[1], G[1])))
        edd == CHalf(CSub(einsum_pqrs_pr_qs(sys.h2e, G[2], G[2]),
                          einsum_pqrs_ps_qr(sys.h2e, G[2], G[2])))
        eud == CHalf(einsum_pqrs_pr_qs(sys.h2e, G[1], G[2]))
        edu == CHalf(einsum_pqrs_pr_qs(sys.h2e, G[2], G[1]))
        e2  == CAdd(CAdd(CAdd(euu, edd), eud), edu)
    IN  <<CAdd(CAdd(e1, e2), sys.ecore), CAdd(e1, sys.ecore), e2>>

\* local_energy(system, G), with shape the value of G.shape: what the call
\* returns, or the exception it raises.  The generalized branch calls
\* local_energy_ghf(system, G) without its weights and denom arguments; the
\* einsum calls of local_energy_generic need the two-dimensional G[0], G[1]
\* of a spin-separated G.
local_energy(sys, G, shape) ==
    LET ghf == shape[Len(shape)] = 2 * sys.nbasis
    IN  IF sys.name = "Hubbard"
        THEN IF ghf THEN [raised |-> "TypeError", value |-> <<>>]
             ELSE [raised |-> "none", value |-> local_energy_hubbard(sys, G)]
        ELSE IF Len(shape) # 3 THEN [raised |-> "ValueError", value |-> <<>>]
             ELSE [raised |-> "none", value |-> local_energy_generic(sys, G)]

\* local_energy_ghf(system, Gi, weights, denom)
local_energy_ghf(Gi, weights, denom) ==
    LET M  == system.nbasis
        nd == 1 .. Len(Gi)
        ke == CDiv(CSumSeq([i \in nd |->
                     CMul(weights[i],
                          MatSum([k \in 1 .. 2 * M |-> Eager([l \in 1 .. 2 * M |->
                                    CMul(Gi[i][k][l], system.Text[k][l])])]))]),
                   denom)
        gdiag(j, k) == CSub(CMul(Gi[j][k][k], Gi[j][M + k][M + k]),
                            CMul(Gi[j][M + k][k], Gi[j][k][M + k]))
        pe == CDiv(CMul(system.U,
                        CSumSeq([j \in nd |->
                            CMul(weights[j],
                                 CSumSeq([k \in 1 .. M |-> gdiag(j, k)]))])),
                   denom)
    IN  <<CAdd(ke, pe), ke, pe>>

\* construct_multi_ghf_gab(A, B, coeffs, Gi, overlaps): the Green's
\* function and the overlap of every component of A with B
construct_multi_ghf_gab(A, B) ==
    [Gi |-> Eager([ix \in 1 .. Len(A) |-> gab(A[ix], B)]),
     overlaps |-> Eager([ix \in 1 .. Len(A) |->
                      CDiv(CInt(1), Det(Inv(MatMul(ConjT(A[ix]), B))))])]

\* the system the accumulator is handed: the Hubbard system, or the one
\* with a dense two-body tensor, of the same orbitals and electrons
BP_system == IF system_name = "Generic" THEN generic_system ELSE system

\* the loop body of update_uhf up to the weighting: self.G from the
\* back-propagated determinant wb and the old snapshot phi_old, and the
\* vector numpy.append(energies, self.G.flatten())
BP_vec_uhf(wb, phi_old) ==
    LET nup == system.nup
        ne  == system.nup + system.ndown
        G   == << Transpose(gab(Cols(wb, 1, nup), Cols(phi_old, 1, nup))),
                  Transpose(gab(Cols(wb, nup + 1, ne), Cols(phi_old, nup + 1, ne))) >>
    IN  local_energy(BP_system, G, <<2, system.nbasis, system.nbasis>>).value
            \o Flatten(G[1]) \o Flatten(G[2])

\* the loop body of update_ghf up to the weighting
BP_vec_ghf(wb, phi_old) ==
    LET c       == construct_multi_ghf_gab(wb, phi_old)
        nd      == 1 .. Len(c.Gi)
        weights == Eager([ix \in nd |->
                       CMul(CMul(wb_weights[ix], trial_coeffs[ix]), c.overlaps[ix])])
        denom   == CSumSeq(weights)
        n       == 2 * system.nbasis
        G       == Eager([j \in 1 .. n |-> Eager([k \in 1 .. n |->
                       CDiv(CSumSeq([i \in nd |-> CMul(weights[i], c.Gi[i][j][k])]),
                            denom)])])
    IN  local_energy_ghf(c.Gi, weights, denom) \o Flatten(G)

\* the loop body up to the weighting, for the trial type tt
BP_vec(tt, wb, phi_old) ==
    IF tt = "GHF" THEN BP_vec_ghf(wb, phi_old) ELSE BP_vec_uhf(wb, phi_old)
\* BP_vec for every pair (back-propagated determinant, old snapshot)
BP_vec_table(tt) ==
    IF tt = "GHF" /\ system_name = "Generic" THEN <<>>
    ELSE
    Eager([b \in 1 .. Len(Dets(tt)) |-> Eager([o \in 1 .. Len(Dets(tt)) |->
        BP_vec(tt, wb_phi(tt, b), Dets(tt)[o])])])
DetIndex(tt, phi) == CHOOSE o \in 1 .. Len(Dets(tt)) : Dets(tt)[o] = phi

\* the body of the loop of update_uhf for one walker: the weight applied
\* and the vector it multiplies
BP_contrib_uhf(wnm, phi_old, nmax, rw) ==
    [wnm |-> wnm,
     weight |-> BP_weight(wnm, nmax, rw),
     denominator |-> BP_weight(wnm, nmax, rw),
     vec |-> bp_vecs[wnm.bp][DetIndex("UHF", phi_old)]]

\* the body of the loop of update_ghf for one walker
BP_contrib_ghf(wnm, phi_old) ==
    [wnm |-> wnm,
     weight |-> CInt(wnm.weight),
     denominator |-> CInt(wnm.weight),
     vec |-> bp_vecs[wnm.bp][DetIndex("GHF", phi_old)]]

\* the accumulation of update_uhf / update_ghf over the walkers: cs holds
\* the contribution of every walker
BP_accumulate(es, cs) ==
    [j \in DOMAIN es |->
        IF j = 0
        THEN CAdd(es[0], CSumSeq([i \in 1 .. Len(cs) |-> cs[i].denominator]))
        ELSE CAdd(es[j], CSumSeq([i \in 1 .. Len(cs) |->
                                     CMul(cs[i].weight, cs[i].vec[j])]))]

\* mutant: no step is skipped
BP_fires_always(s, nmax) == TRUE
\* mutant: the emission misses the first window
BP_emits_late(s, nmax) == s # nmax /\ s % nmax = 0

\* the gate of update_uhf / update_ghf: not (step % self.nmax != 0)
BP_fires(s, nmax) == s % nmax = 0
\* the gate of print_step: step != 0 and step % self.nmax == 0
BP_emits(s, nmax) == s # 0 /\ s % nmax = 0

\* BackPropagation.zero
BP_zero(es) == [j \in DOMAIN es |-> CZero]

\* comm.Reduce(self.estimates, self.global_estimates, op=MPI.SUM)
BP_Reduce_SUM(bufs, tt) == [j \in BPIdx(tt) |-> SumRanks(bufs, j, nprocs - 1)]
\* mutant: the row normalised by the accumulated weight
BP_row_per_weight(glob, P) ==
    [j \in 0 .. (BP_nreg - 1) |-> CDiv(glob[j], glob[0])]

\* the rows pushed: global_estimates[:nreg]/nprocs and
\* global_estimates[nreg:]/nprocs
BP_row(glob, P) == [j \in 0 .. (BP_nreg - 1) |-> CDiv(glob[j], CInt(P))]
BP_dm_row(glob, P) ==
    [j \in (DOMAIN glob) \ (0 .. (BP_nreg - 1)) |-> CDiv(glob[j], CInt(P))]

\* BackPropagation.__init__: the routine kept in self.back_propagate
BP_back_propagate(tt) ==
    IF tt = "GHF"
    THEN (IF system_name = "Generic" THEN "back_propagate_generic_uhf"
                                     ELSE "back_propagate_ghf")
    ELSE (IF system_name = "Generic" THEN "back_propagate_generic"
                                     ELSE "back_propagate")
\* the routine a firing update calls: update_uhf calls self.back_propagate,
\* update_ghf calls pauxy.propagation.back_propagate_ghf
BP_routine_called(tt) ==
    IF tt = "GHF" THEN "back_propagate_ghf" ELSE BP_back_propagate(tt)

\* mutant: the old snapshots are never advanced
copy_wfn_stale(tt, ws) ==
    Eager([i \in 1 .. Len(ws) |->
        [phi_old |-> trial_psi(tt), phi_bp |-> wb_phi(tt, ws[i].bp)]])

\* psi.copy_historic_wfn() and psi.copy_bp_wfn(psi_bp): every walker keeps
\* its current determinant as phi_old and the back-propagated one as phi_bp
copy_wfn(tt, ws) ==
    Eager([i \in 1 .. Len(ws) |->
        [phi_old |-> Dets(tt)[ws[i].phi], phi_bp |-> wb_phi(tt, ws[i].bp)]])

\* the driver: update(step) then print_step(step) for step = 1 .. nsteps
Driver_first_step == 1
Driver_pc(s) == IF s > qmc_nsteps THEN "done" ELSE "update"

\* Estimators.update -> BackPropagation.update(step), on every rank; psi
\* gives, per rank, the population as propagated to this step.  The ranks
\* share no state in update, so their calls are taken together.  With a
\* GHF trial and a Generic system update_ghf calls back_propagate_ghf and
\* then local_energy_ghf, which reads system.Text and system.U; the
\* Generic system holds neither.
BPUpdate(psi) ==
    /\ raised = "none"
    /\ pc = "update"
    /\ IF BP_fires(step, bp_nmax) /\ trial_type = "GHF" /\ system_name = "Generic"
       THEN /\ bp_invoked' = [r \in Ranks |-> BP_routine_called(trial_type)]
            /\ raised' = "AttributeError"
            /\ UNCHANGED <<bp_estimates, walkers, bp_seen, bp_passes, pc>>
       ELSE IF BP_fires(step, bp_nmax)
       THEN LET cs == [r \in Ranks |-> Eager([i \in 1 .. nwalkers |->
                          IF trial_type = "GHF"
                          THEN BP_contrib_ghf(psi[r][i], walkers[r][i].phi_old)
                          ELSE BP_contrib_uhf(psi[r][i], walkers[r][i].phi_old,
                                              bp_nmax, restore_weights)])]
            IN  /\ bp_estimates' =
                      [r \in Ranks |-> BP_accumulate(bp_estimates[r], cs[r])]
                /\ walkers' = [r \in Ranks |-> copy_wfn(trial_type, psi[r])]
                /\ bp_seen' = [r \in Ranks |-> bp_seen[r] \o cs[r]]
                /\ bp_passes' = [r \in Ranks |-> bp_passes[r] + 1]
                /\ bp_invoked' = [r \in Ranks |-> BP_routine_called(trial_type)]
                /\ pc' = "print_step"
                /\ UNCHANGED raised
       ELSE /\ bp_invoked' = [r \in Ranks |-> "none"]
            /\ pc' = "print_step"
            /\ UNCHANGED <<bp_estimates, walkers, bp_seen, bp_passes, raised>>
    /\ bp_pushed' = <<>>
    /\ bp_dm_pushed' = <<>>
    /\ UNCHANGED <<trial_type, system_name, bp_nmax, restore_weights, bp_rdm, nwalkers,
                   bp_global_estimates, bp_output_index, step, bp_vecs,
                   comm, nprocs, qmc_nsteps, mixed_own, aux_vars>>

\* Estimators.print_step -> BackPropagation.print_step(comm, nprocs, step),
\* on every rank.  Without a communicator comm.Reduce raises; rank 0
\* raises when the dataset has no row left.
BPPrintStep ==
    /\ raised = "none"
    /\ pc = "print_step"
    /\ IF ~BP_emits(step, bp_nmax)
       THEN /\ step' = step + 1
            /\ pc' = Driver_pc(step + 1)
            /\ UNCHANGED <<bp_estimates, bp_global_estimates, bp_output_index,
                           bp_pushed, bp_dm_pushed, bp_seen, bp_passes, raised>>
       ELSE IF comm = "None"
       THEN /\ raised' = "AttributeError"
            /\ UNCHANGED <<bp_estimates, bp_global_estimates, bp_output_index,
                           bp_pushed, bp_dm_pushed, bp_seen, bp_passes, step, pc>>
       ELSE LET glob == BP_Reduce_SUM(bp_estimates, trial_type)
                full == bp_output_index >= BP_output_rows
            IN  /\ bp_pushed' = IF full THEN <<>> ELSE <<BP_row(glob, nprocs)>>
                /\ bp_dm_pushed' =
                      IF full \/ ~bp_rdm THEN <<>> ELSE <<BP_dm_row(glob, nprocs)>>
                /\ bp_output_index' =
                      IF full THEN bp_output_index ELSE bp_output_index + 1
                /\ raised' = IF full THEN "push" ELSE "none"
                /\ bp_estimates' =
                      [r \in Ranks |->
                          IF full /\ r = 0 THEN bp_estimates[r]
                          ELSE BP_zero(bp_estimates[r])]
                /\ bp_global_estimates' =
                      [r \in Ranks |->
                          IF full /\ r = 0 THEN glob
                          ELSE BP_zero(bp_global_estimates[r])]
                /\ bp_seen' = [r \in Ranks |->
                                  IF full /\ r = 0 THEN bp_seen[r] ELSE <<>>]
                /\ bp_passes' = [r \in Ranks |->
                                    IF full /\ r = 0 THEN bp_passes[r] ELSE 0]
                /\ step' = IF full THEN step ELSE step + 1
                /\ pc' = IF full THEN pc ELSE Driver_pc(step + 1)
    /\ bp_invoked' = [r \in Ranks |-> "none"]
    /\ UNCHANGED <<trial_type, system_name, bp_nmax, restore_weights, bp_rdm, nwalkers,
                   walkers, bp_vecs, comm, nprocs, qmc_nsteps, mixed_own,
                   aux_vars>>

\* ----------------------------------------------------------- class ITCF
\* ITCF.nmax = int(self.tmax/qmc.dt), for tmax >= 0 and dt > 0 given in a
\* common unit of time
ITCF_nmax(tmax, dt) == tmax \div dt
\* mutant: the back-propagation window taken as one step
Est_nbp_one(on, nmax) == 1

\* Estimators.__init__: the nbp handed to ITCF is BackPropagation.nmax, or
\* 1 when back propagation is not configured
Est_nbp(on, nmax) == IF on THEN nmax ELSE 1

\* ITCF.nprop_tot = self.nmax + nbp
ITCF_nprop_tot(nmax, nbp) == nmax + nbp
\* rows of the 'real_space' dataset: qmc.nsteps // self.nmax
ITCF_output_rows == qmc_nsteps \div itcf_nmax

\* numpy.zeros(shape=(nmax+1, 2, 2, nbasis, nbasis)): the buffer is the
\* sequence of its slices, a slice holds per spin the pair
\* (greater, lesser) of nbasis x nbasis arrays
ITCF_zero_spgf(nmax) ==
    Eager([idx \in 1 .. (nmax + 1) |->
        Eager([s \in 1 .. 2 |-> Eager([k \in 1 .. 2 |->
            Eager([i \in 1 .. system.nbasis |->
                Eager([j \in 1 .. system.nbasis |-> CZero])])])])])
\* A.real, c*A and A/c
MatReal(A) ==
    Eager([i \in 1 .. NRows(A) |-> Eager([j \in 1 .. NCols(A) |-> CReal(A[i][j])])])
MatScale(c, A) ==
    Eager([i \in 1 .. NRows(A) |-> Eager([j \in 1 .. NCols(A) |-> CMul(c, A[i][j])])])
MatDiv(A, c) ==
    Eager([i \in 1 .. NRows(A) |-> Eager([j \in 1 .. NCols(A) |-> CDiv(A[i][j], c)])])
\* the buffer divided by a scalar
SpgfDiv(sp, c) ==
    Eager([idx \in 1 .. Len(sp) |->
        Eager([s \in 1 .. 2 |-> Eager([k \in 1 .. 2 |-> MatDiv(sp[idx][s][k], c)])])])
\* A.dot(v) and v.dot(A) for a one-dimensional v
MatVec(A, v) ==
    Eager([i \in 1 .. NRows(A) |->
        CSumSeq([k \in 1 .. Len(v) |-> CMul(A[i][k], v[k])])])
VecMat(v, A) ==
    Eager([j \in 1 .. NCols(A) |->
        CSumSeq([k \in 1 .. Len(v) |-> CMul(v[k], A[k][j])])])
\* numpy broadcasting of a one-dimensional array of length n against an
\* n x n array: every row is the array
Broadcast(v) == Eager([i \in 1 .. Len(v) |-> v])

\* ITCF.initial_greens_function_uhf(A, B, trial, nup, weights)
\* its last four lines: Gls = I - Ggr per spin, and the pair returned
greens_function_pair(I, Ggr_up, Ggr_down) ==
    [gr |-> <<Ggr_up, Ggr_down>>,
     ls |-> <<MatSub(I, Ggr_up), MatSub(I, Ggr_down)>>]
initial_greens_function_uhf(A, B) ==
    greens_function_pair(
        Identity(system.nbasis),
        MatSub(Identity(system.nbasis),
               gab(Cols(A, 1, system.nup), Cols(B, 1, system.nup))),
        MatSub(Identity(system.nbasis),
               gab(Cols(A, system.nup + 1, system.nup + system.ndown),
                   Cols(B, system.nup + 1, system.nup + system.ndown))))

\* ITCF.accumulate_uhf(idx, weight, Ggr, Gls, nbasis): spgf[idx, spin,
\* ordering] += weight * G[spin].real
accumulate_uhf(sp, idx, weight, Ggr, Gls) ==
    LET w == CInt(weight)
    IN  [sp EXCEPT ![idx + 1] =
            << <<MatAdd(@[1][1], MatScale(w, MatReal(Ggr[1]))),
                 MatAdd(@[1][2], MatScale(w, MatReal(Gls[1])))>>,
               <<MatAdd(@[2][1], MatScale(w, MatReal(Ggr[2]))),
                 MatAdd(@[2][2], MatScale(w, MatReal(Gls[2])))>> >>]

\* ITCF.increment_tau_uhf_unstable(Ggr, Gls, B): Ggr and Gls hold one
\* nbasis x nbasis array per spin
increment_tau_uhf_unstable(Ggr, Gls, B) ==
    [gr |-> <<MatMul(B[1], Ggr[1]), MatMul(B[2], Ggr[2])>>,
     ls |-> <<MatMul(Gls[1], Inv(B[1])), MatMul(Gls[2], Inv(B[2]))>>]

\* ITCF.increment_tau_uhf_stable(Ggr, Gls, B, Gnn_gr, Gnn_ls): the running
\* Ggr and Gls are the nbasis x nbasis arrays calculate_spgf_stable
\* creates with numpy.identity, so Ggr[0], Ggr[1], Gls[0], Gls[1] are
\* their first two rows; the last line reads the Gls[0] just assigned
\* its last line, l0 being the Gls[0] of the line before
increment_tau_lesser(Gls, l0, B, Gnn_ls) ==
    [Gls EXCEPT ![1] = l0,
                ![2] = VecMat(l0, MatMul(Gnn_ls[2], Inv(B[2])))]
increment_tau_uhf_stable(Ggr, Gls, B, Gnn_gr, Gnn_ls) ==
    [gr |-> [Ggr EXCEPT ![1] = MatVec(MatMul(B[1], Gnn_gr[1]), Ggr[1]),
                        ![2] = MatVec(MatMul(B[2], Gnn_gr[2]), Ggr[2])],
     ls |-> increment_tau_lesser(
                Gls, VecMat(Gls[1], MatMul(Gnn_ls[1], Inv(B[1]))), B, Gnn_ls)]

\* ITCF.increment_tau_ghf_stable(Ggr, Gls, B, Gnn_gr, Gnn_ls): Ggr and Gls
\* are 2*nbasis x 2*nbasis arrays
increment_tau_ghf_stable(Ggr, Gls, B, Gnn_gr, Gnn_ls) ==
    [gr |-> MatMul(MatMul(B, Gnn_gr), Ggr),
     ls |-> MatMul(MatMul(Gnn_ls, Inv(B)), Gls)]

\* pauxy.propagation.propagate_single(phi, system, B): the up and the down
\* columns of phi multiplied by B[0] and B[1]
\* the two blocks of columns side by side
HStack(up, dn) == Eager([i \in 1 .. NRows(up) |-> up[i] \o dn[i]])
propagate_single(phi, B) ==
    HStack(MatMul(B[1], Cols(phi, 1, system.nup)),
           MatMul(B[2], Cols(phi, system.nup + 1, system.nup + system.ndown)))

\* the loop over configs of calculate_spgf_unstable, from the 1-based ic:
\* spgf_unstable_step is the body after increment_tau_uhf_unstable has
\* returned inc
RECURSIVE spgf_unstable_steps(_, _, _, _, _, _)
spgf_unstable_step(sp, weight, inc, configs, ic) ==
    spgf_unstable_steps(accumulate_uhf(sp, ic, weight, inc.gr, inc.ls),
                        weight, inc.gr, inc.ls, configs, ic + 1)
spgf_unstable_steps(sp, weight, Ggr, Gls, configs, ic) ==
    IF ic > Len(configs) THEN sp
    ELSE spgf_unstable_step(sp, weight,
                            increment_tau_uhf_unstable(Ggr, Gls, configs[ic]),
                            configs, ic)

\* the body of the loop over walkers of calculate_spgf_unstable: w.phi_bp
\* is the left state back_propagate_single has left in place, g the
\* equal-time pair of the walker
spgf_unstable_from(sp, w, g) ==
    spgf_unstable_steps(accumulate_uhf(sp, 0, w.weight, g.gr, g.ls),
                        w.weight, g.gr, g.ls, w.configs, 1)
spgf_unstable_walker(sp, w) ==
    spgf_unstable_from(sp, w, initial_greens_function_uhf(w.phi_bp, w.phi_init))

\* the loop over configs of calculate_spgf_stable, from the 1-based ic:
\* Gnn is the equal-time pair, R the right state propagated so far, inc
\* what increment_tau_uhf_stable has returned and R1 what
\* propagate_single has.  The window is shorter than qmc.nstblz, so no
\* step re-orthogonalises R.
RECURSIVE spgf_stable_steps(_, _, _, _, _, _, _, _, _)
\* mutant: the stored left states read from the wrong end of the list
spgf_stable_step_first_left(sp, weight, inc, R1, configs, psi_Ls, ic) ==
    spgf_stable_steps(
        accumulate_uhf(sp, ic, weight,
                       <<Broadcast(inc.gr[1]), Broadcast(inc.gr[2])>>,
                       <<Broadcast(inc.ls[1]), Broadcast(inc.ls[2])>>),
        weight, inc.gr, inc.ls,
        initial_greens_function_uhf(psi_Ls[ic], R1), R1,
        configs, psi_Ls, ic + 1)
spgf_stable_step(sp, weight, inc, R1, configs, psi_Ls, ic) ==
    spgf_stable_steps(
        accumulate_uhf(sp, ic, weight,
                       <<Broadcast(inc.gr[1]), Broadcast(inc.gr[2])>>,
                       <<Broadcast(inc.ls[1]), Broadcast(inc.ls[2])>>),
        weight, inc.gr, inc.ls,
        initial_greens_function_uhf(psi_Ls[Len(psi_Ls) - (ic - 1)], R1), R1,
        configs, psi_Ls, ic + 1)
spgf_stable_steps(sp, weight, Ggr, Gls, Gnn, R, configs, psi_Ls, ic) ==
    IF ic > Len(configs) THEN sp
    ELSE spgf_stable_step(
             sp, weight,
             increment_tau_uhf_stable(Ggr, Gls, configs[ic], Gnn.gr, Gnn.ls),
             propagate_single(R, configs[ic]), configs, psi_Ls, ic)

\* the body of the loop over walkers of calculate_spgf_stable, Gnn the
\* equal-time pair of the walker
spgf_stable_from(sp, w, Gnn) ==
    spgf_stable_steps(accumulate_uhf(sp, 0, w.weight, Gnn.gr, Gnn.ls),
                      w.weight, Identity(system.nbasis), Identity(system.nbasis),
                      Gnn, w.phi_init, w.configs, w.psi_Ls, 1)
spgf_stable_walker(sp, w) ==
    spgf_stable_from(sp, w, initial_greens_function_uhf(w.phi_bp, w.phi_init))

RECURSIVE spgf_walkers(_, _, _)
spgf_walkers(sp, ws, stable) ==
    IF ws = <<>> THEN sp
    ELSE spgf_walkers(IF stable THEN spgf_stable_walker(sp, Head(ws))
                                ELSE spgf_unstable_walker(sp, Head(ws)),
                      Tail(ws), stable)

\* self.spgf = self.spgf / denom
spgf_normalise(sp, denom) == SpgfDiv(sp, CInt(denom))

\* ITCF.calculate_spgf_unstable / calculate_spgf_stable on the buffer sp
\* and the walkers ws
calculate_spgf(sp, ws, stable) ==
    LET denom == CSumSeq([i \in 1 .. Len(ws) |-> CInt(ws[i].weight)])[1]
    IN  spgf_normalise(spgf_walkers(sp, ws, stable), denom)

\* the gates of ITCF.update and ITCF.print_step
ITCF_fires(s, n) == s % n = 0
ITCF_emits(s, n) == s # 0 /\ s % n = 0

\* ITCF.zero
ITCF_zero(sp) == ITCF_zero_spgf(Len(sp) - 1)

\* the sum of two buffers
SpgfAdd(a, b) ==
    Eager([idx \in 1 .. Len(a) |->
        Eager([s \in 1 .. 2 |-> Eager([k \in 1 .. 2 |->
            MatAdd(a[idx][s][k], b[idx][s][k])])])])
\* comm.Reduce(self.spgf, self.spgf_global, op=MPI.SUM)
RECURSIVE ITCF_Reduce_SUM(_, _)
ITCF_Reduce_SUM(bufs, r) ==
    IF r = 0 THEN bufs[0]
    ELSE SpgfAdd(ITCF_Reduce_SUM(bufs, r - 1), bufs[r])

\* spgf.diagonal(axis1=3, axis2=4)
SpgfDiagonal(sp) ==
    Eager([idx \in 1 .. Len(sp) |->
        Eager([s \in 1 .. 2 |-> Eager([k \in 1 .. 2 |->
            Eager([i \in 1 .. NRows(sp[idx][s][k]) |-> sp[idx][s][k][i][i]])])])])

\* ITCF.to_file(group, spgf): the row pushed, or the exception raised; the
\* last branch reads the name mode, which is bound nowhere
to_file(mode, sp) ==
    IF mode = "full" THEN [raised |-> "none", row |-> sp]
    ELSE IF mode = "diagonal"
    THEN [raised |-> "none", row |-> SpgfDiagonal(sp)]
    ELSE [raised |-> "NameError", row |-> <<>>]

\* ------------------------------------------------- class Estimators
\* lengths of the run (qmc.nsteps) drawn
EstRunLengths == {3, 4}
\* the run layouts drawn: a serial run without a communicator and a run
\* of one process under MPI, holding two walkers, and a run of two
\* processes holding one walker each
EstLayouts ==
    { [comm |-> "None", nprocs |-> 1, nwalkers |-> 2],
      [comm |-> "MPI", nprocs |-> 1, nwalkers |-> 2],
      [comm |-> "MPI", nprocs |-> 2, nwalkers |-> 1] }
\* estimates.get('back_propagated', None): absent, or with nback_prop as
\* given (nmax stands at 1 where no BackPropagation object exists)
EstBPOptions ==
    { [on |-> FALSE, nmax |-> 1], [on |-> TRUE, nmax |-> 0],
      [on |-> TRUE, nmax |-> 1], [on |-> TRUE, nmax |-> 2] }
\* estimates['itcf'] together with qmc.dt: tmax and dt in a common unit of
\* time, the stabilisation flag and the output mode ("list" stands for
\* an explicit list of index pairs)
EstITCFOptions ==
    { [tmax |-> 0, dt |-> 1, stable |-> TRUE,  mode |-> "full"],
      [tmax |-> 3, dt |-> 2, stable |-> TRUE,  mode |-> "full"],
      [tmax |-> 3, dt |-> 2, stable |-> FALSE, mode |-> "diagonal"],
      [tmax |-> 1, dt |-> 1, stable |-> FALSE, mode |-> "list"],
      [tmax |-> 2, dt |-> 1, stable |-> TRUE,  mode |-> "diagonal"],
      [tmax |-> 2, dt |-> 1, stable |-> FALSE, mode |-> "full"] }

\* construct_propagator_matrix(system, BT2, c) for the field
\* configurations c = 1, 2: the pair (B[0], B[1]) of invertible
\* nbasis x nbasis matrices for the up and the down electrons
EstPropagators ==
    << << << <<CInt(1), CInt(1)>>, <<CInt(0), CInt(1)>> >>,
          << <<CInt(1), CInt(0)>>, <<CInt(1), CInt(1)>> >> >>,
       << << <<CInt(2), CInt(1)>>, <<CInt(1), CInt(1)>> >>,
          << <<CInt(1), CInt(1)>>, <<CInt(1), CInt(2)>> >> >> >>
construct_propagator_matrix(c) == EstPropagators[c]

\* What the three accumulators read of one walker of the population: the
\* fields Mixed.update and BackPropagation.update read, and path, the
\* field configurations the walker has stored for the window
EstSamples ==
    << [weight |-> 1, phi |-> 1, bp |-> 2,
        weight_fac |-> <<CInt(2), Cx(1, 1), CInt(3)>>,
        cos_fac |-> <<CInt(1), CInt(2), CInt(1)>>,
        E |-> Cx(3, 1), T |-> Cx(1, 1), V |-> Cx(2, 0),
        ot |-> CInt(2), G |-> Cx(1, 1), path |-> <<1, 2>>],
       [weight |-> 2, phi |-> 2, bp |-> 1,
        weight_fac |-> <<CInt(3), CInt(2), CInt(1)>>,
        cos_fac |-> <<CInt(2), CInt(1), CInt(3)>>,
        E |-> Cx(2, -1), T |-> Cx(-1, 0), V |-> Cx(3, -1),
        ot |-> CInt(-1), G |-> Cx(3, 0), path |-> <<2, 1>>] >>
\* the populations a step can hand to update: per rank, n walkers that
\* alternate between the two samples, starting from either
EstInputs(n) ==
    { [r \in Ranks |-> [i \in 1 .. n |-> EstSamples[((c + r + i) % 2) + 1]]] :
        c \in {0, 1} }

\* w.field_configs.get_superblock()[0], turned into propagator matrices
\* by the loop over configs: the first nmax configurations of the path
get_superblock(w, nmax) ==
    Eager([k \in 1 .. nmax |-> construct_propagator_matrix(w.path[k])])

\* pauxy.propagation.back_propagate_single(phi_bp, configs, ...,
\* store=True): B^dagger of the configurations applied to the left state
\* from the last configuration to the first; phi is the state left in
\* place, stored holds the left state of every later slice, the last
\* slice first
RECURSIVE back_propagate_single(_, _, _)
back_propagate_rest(phi, rest) ==
    [phi |-> rest.phi, stored |-> <<phi>> \o rest.stored]
back_propagate_single(phi, Bs, k) ==
    IF k = 0 THEN [phi |-> phi, stored |-> <<>>]
    ELSE back_propagate_rest(
             phi,
             back_propagate_single(
                 propagate_single(phi, <<ConjT(Bs[k][1]), ConjT(Bs[k][2])>>),
                 Bs, k - 1))

\* what calculate_spgf reads of one walker: w the walker of the
\* population, init its phi_init, Bs its propagator matrices and bp what
\* back_propagate_single has returned
ITCF_walker_view(w, init, Bs, bp) ==
    [weight |-> w.weight, phi_bp |-> bp.phi, phi_init |-> init,
     configs |-> Bs, psi_Ls |-> bp.stored]
ITCF_walker(w, phi_bp, init, nmax) ==
    ITCF_walker_view(w, init, get_superblock(w, nmax),
                     back_propagate_single(phi_bp, get_superblock(w, nmax), nmax))

\* the states w.phi_bp can hold when calculate_spgf reads it: a
\* determinant the back propagation has left, or the state an earlier
\* calculate_spgf has left in place of the initial one
ITCF_lefts(nmax) ==
    Dets("UHF") \o
    Eager([s \in 1 .. Len(EstSamples) |->
        ITCF_walker(EstSamples[s], wb_phi("UHF", 1), trial_psi("UHF"), nmax).phi_bp])

\* the body of the loop over walkers of calculate_spgf_stable or
\* calculate_spgf_unstable, from a zeroed buffer, for every walker: w is
\* what the loop reads of it, contrib what it adds to the buffer
ITCF_contrib(w, nmax, stable) ==
    [w |-> w,
     contrib |-> IF stable
                 THEN spgf_stable_walker(ITCF_zero_spgf(nmax), w)
                 ELSE spgf_unstable_walker(ITCF_zero_spgf(nmax), w)]
ITCF_table(nmax, stable) ==
    [lefts |-> ITCF_lefts(nmax),
     entry |-> [l \in 1 .. Len(ITCF_lefts(nmax)), i \in 1 .. Len(Dets("UHF")),
                s \in 1 .. Len(EstSamples) |->
                   ITCF_contrib(ITCF_walker(EstSamples[s], ITCF_lefts(nmax)[l],
                                            Dets("UHF")[i], nmax),
                                nmax, stable)]]
\* the entry of the table for the walker w of the population with the
\* back-propagated state phi_bp and the initial snapshot init
ITCF_entry(w, phi_bp, init) ==
    itcf_table.entry[
        CHOOSE l \in 1 .. Len(itcf_table.lefts) : itcf_table.lefts[l] = phi_bp,
        DetIndex("UHF", init),
        CHOOSE s \in 1 .. Len(EstSamples) : EstSamples[s] = w]

\* the loop over walkers of calculate_spgf on the buffer sp, es holding
\* the table entries of the walkers, and the division by denom
RECURSIVE spgf_add_walkers(_, _)
spgf_add_walkers(sp, es) ==
    IF es = <<>> THEN sp
    ELSE spgf_add_walkers(SpgfAdd(sp, Head(es).contrib), Tail(es))
ITCF_calculated(sp, es) ==
    spgf_normalise(spgf_add_walkers(sp, es),
                   CSumSeq([i \in 1 .. Len(es) |-> CInt(es[i].w.weight)])[1])

\* Estimators.__init__ on the rank r: the exception raised, if any.  The
\* root creates the datasets, of qmc.nsteps // nmax rows
Est_construct(r, on, nbp, nmax) ==
    IF r = 0 /\ ((on /\ nbp = 0) \/ nmax = 0) THEN "ZeroDivisionError"
    ELSE "none"
\* self.h5f on the rank r
Est_h5f(r) == IF r = 0 THEN "file" ELSE "None"
\* the ranks still running, and the exception that ended the run
Alive(rr) == {r \in DOMAIN rr : rr[r] = "none"}
Est_raised(rr) ==
    IF Alive(rr) = DOMAIN rr THEN "none"
    ELSE rr[CHOOSE r \in DOMAIN rr :
                /\ rr[r] # "none"
                /\ \A q \in DOMAIN rr : rr[q] # "none" => r <= q]
\* the ranks left waiting in a collective call a stopped rank never enters
Est_hang(rr) == [r \in DOMAIN rr |-> IF rr[r] = "none" THEN "hung" ELSE rr[r]]

\* mutant: every rank writes
Est_writes_all(c, r) == TRUE

\* the condition under which a rank pushes and flushes: (comm is None) or
\* (comm.Get_rank() == 0)
Est_writes(c, r) == c = "None" \/ r = 0

\* the accumulator container as constructed, never called
EstIdle ==
    /\ bp_on = FALSE
    /\ h5f = [r \in Ranks |-> Est_h5f(r)]
    /\ rank_raised = [r \in Ranks |-> "none"]
    /\ wrote = {}
    /\ itcf_tmax = 0
    /\ qmc_dt = 1
    /\ itcf_stable = TRUE
    /\ itcf_mode = "full"
    /\ itcf_nmax = 0
    /\ itcf_nprop_tot = 1
    /\ spgf = [r \in Ranks |-> <<>>]
    /\ spgf_global = [r \in Ranks |-> <<>>]
    /\ itcf_output_index = 0
    /\ itcf_pushed = <<>>
    /\ phi_init = [r \in Ranks |-> <<>>]
    /\ itcf_fired = [r \in Ranks |-> FALSE]
    /\ itcf_seen = [r \in Ranks |-> <<>>]
    /\ itcf_table = [lefts |-> <<>>, entry |-> <<>>]

\* Estimators.update(system, qmc, trial, psi, step) on every rank still
\* running: Mixed.update, then BackPropagation.update where configured,
\* then ITCF.update.  A BackPropagation of nback_prop = 0 raises at
\* step % self.nmax.
EstUpdate(psi) ==
    /\ pc = "update"
    /\ Alive(rank_raised) # {}
    /\ LET A0    == Alive(rank_raised)
           bpzero == bp_on /\ bp_nmax = 0
           rr1   == [r \in Ranks |->
                        IF r \in A0 /\ bpzero THEN "ZeroDivisionError"
                        ELSE rank_raised[r]]
           bpf   == bp_on /\ ~bpzero /\ BP_fires(step, bp_nmax)
           cs    == [r \in Ranks |-> Eager([i \in 1 .. nwalkers |->
                        BP_contrib_uhf(psi[r][i], walkers[r][i].phi_old,
                                       bp_nmax, restore_weights)])]
           wk1   == [r \in Ranks |->
                        IF r \in A0 /\ bpf THEN copy_wfn(trial_type, psi[r])
                        ELSE walkers[r]]
           A1    == Alive(rr1)
           itf   == A1 # {} /\ ITCF_fires(step, itcf_nprop_tot)
           iw    == [r \in Ranks |->
                        IF r \in A1 /\ itf
                        THEN Eager([i \in 1 .. nwalkers |->
                                 ITCF_entry(psi[r][i], wk1[r][i].phi_bp, phi_init[r][i])])
                        ELSE <<>>]
       IN  /\ mixed_estimates' =
                 [r \in Ranks |->
                     IF r \in A0
                     THEN Mixed_update(mixed_estimates[r], psi[r],
                                       free_projection, mixed_rdm)
                     ELSE mixed_estimates[r]]
           /\ bp_estimates' =
                 [r \in Ranks |->
                     IF r \in A0 /\ bpf THEN BP_accumulate(bp_estimates[r], cs[r])
                     ELSE bp_estimates[r]]
           /\ rank_raised' = rr1
           /\ raised' = Est_raised(rr1)
           /\ spgf' = [r \in Ranks |->
                          IF r \in A1 /\ itf
                          THEN ITCF_calculated(spgf[r], iw[r])
                          ELSE spgf[r]]
           /\ walkers' =
                 [r \in Ranks |->
                     IF r \in A1 /\ itf
                     THEN Eager([i \in 1 .. nwalkers |->
                              [wk1[r][i] EXCEPT !.phi_bp = iw[r][i].w.phi_bp]])
                     ELSE wk1[r]]
           /\ phi_init' =
                 [r \in Ranks |->
                     IF r \in A1 /\ itf
                     THEN Eager([i \in 1 .. nwalkers |-> Dets(trial_type)[psi[r][i].phi]])
                     ELSE phi_init[r]]
           /\ itcf_fired' = [r \in Ranks |-> r \in A1 /\ itf]
           /\ itcf_seen' = [r \in Ranks |->
                               Eager([i \in 1 .. Len(iw[r]) |-> iw[r][i].w])]
           /\ pc' = IF A1 # {} THEN "print_step" ELSE pc
    /\ mixed_pushed' = <<>>
    /\ bp_pushed' = <<>>
    /\ itcf_pushed' = <<>>
    /\ wrote' = {}
    /\ UNCHANGED <<free_projection, mixed_rdm, comm, nprocs, qmc_nsteps,
                   qmc_nmeasure, mixed_global_estimates, mixed_output_index,
                   mixed_dm_pushed, clock, mixed_seen, calls, print_args,
                   trial_type, system_name, bp_nmax, restore_weights, bp_rdm, nwalkers,
                   bp_global_estimates, bp_output_index, bp_dm_pushed, step,
                   bp_seen, bp_passes, bp_invoked, bp_vecs, kern_vars,
                   bp_on, h5f, itcf_tmax, qmc_dt, itcf_stable, itcf_mode,
                   itcf_nmax, itcf_nprop_tot, spgf_global, itcf_output_index,
                   itcf_table>>

\* Estimators.print_step(comm, nprocs, step, nmeasure) on every rank still
\* running: Mixed.print_step, BackPropagation.print_step where configured,
\* ITCF.print_step, then the flush.  The wall clock is read as standing
\* still.  A rank that raises leaves the call at once; under MPI the
\* others stay in the next reduction; without a communicator comm.Reduce
\* raises.
EstPrintStep ==
    /\ pc = "print_step"
    /\ Alive(rank_raised) # {}
    /\ LET A0    == Alive(rank_raised)
           \* Mixed.print_step
           ranM  == comm = "None" \/ A0 = Ranks
           es1   == [r \in Ranks |->
                        Mixed_normalise(mixed_estimates[r], nprocs, qmc_nmeasure, clock)]
           globM == IF comm # "None" THEN MPI_Reduce_SUM(es1) ELSE es1[0]
           fullM == mixed_output_index >= Mixed_output_rows
           rrM   == IF ~ranM THEN Est_hang(rank_raised)
                    ELSE IF fullM THEN [rank_raised EXCEPT ![0] = "push"]
                    ELSE rank_raised
           AM    == Alive(rrM)
           \* BackPropagation.print_step
           gateB == bp_on /\ AM # {} /\ bp_nmax # 0 /\ BP_emits(step, bp_nmax)
           ranB  == gateB /\ comm # "None" /\ AM = Ranks
           globB == BP_Reduce_SUM(bp_estimates, trial_type)
           fullB == bp_output_index >= BP_output_rows
           rrB   == IF ~gateB THEN rrM
                    ELSE IF comm = "None" THEN [rrM EXCEPT ![0] = "AttributeError"]
                    ELSE IF AM # Ranks THEN Est_hang(rrM)
                    ELSE IF fullB THEN [rrM EXCEPT ![0] = "push"]
                    ELSE rrM
           AB    == Alive(rrB)
           \* ITCF.print_step
           gateI == AB # {} /\ ITCF_emits(step, itcf_nprop_tot)
           ranI  == gateI /\ comm # "None" /\ AB = Ranks
           globI == ITCF_Reduce_SUM(spgf, nprocs - 1)
           tf    == to_file(itcf_mode, SpgfDiv(globI, CInt(nprocs)))
           rrI   == IF ~gateI THEN rrB
                    ELSE IF comm = "None" THEN [rrB EXCEPT ![0] = "AttributeError"]
                    ELSE IF AB # Ranks THEN Est_hang(rrB)
                    ELSE IF tf.raised # "none" THEN [rrB EXCEPT ![0] = tf.raised]
                    ELSE IF itcf_output_index >= ITCF_output_rows
                    THEN [rrB EXCEPT ![0] = "push"]
                    ELSE rrB
           okI   == ranI /\ rrI[0] = "none"
       IN  /\ mixed_estimates' =
                 [r \in Ranks |->
                     IF r \notin A0 THEN mixed_estimates[r]
                     ELSE IF ~ranM \/ (fullM /\ r = 0) THEN es1[r]
                     ELSE Mixed_zero_estimates(es1[r], clock)]
           /\ mixed_global_estimates' =
                 [r \in Ranks |->
                     IF ~ranM THEN mixed_global_estimates[r]
                     ELSE IF r = 0 THEN (IF fullM THEN globM
                                         ELSE Mixed_zero_global(globM))
                     ELSE Mixed_zero_global(mixed_global_estimates[r])]
           /\ mixed_pushed' =
                 IF ranM /\ ~fullM THEN <<Mixed_row(globM, qmc_nmeasure)>> ELSE <<>>
           /\ mixed_output_index' =
                 IF ranM /\ ~fullM THEN mixed_output_index + 1
                 ELSE mixed_output_index
           /\ bp_estimates' =
                 [r \in Ranks |->
                     IF ranB /\ ~(fullB /\ r = 0) THEN BP_zero(bp_estimates[r])
                     ELSE bp_estimates[r]]
           /\ bp_global_estimates' =
                 [r \in Ranks |->
                     IF ~ranB THEN bp_global_estimates[r]
                     ELSE IF fullB /\ r = 0 THEN globB
                     ELSE BP_zero(bp_global_estimates[r])]
           /\ bp_pushed' = IF ranB /\ ~fullB THEN <<BP_row(globB, nprocs)>> ELSE <<>>
           /\ bp_output_index' =
                 IF ranB /\ ~fullB THEN bp_output_index + 1 ELSE bp_output_index
           /\ spgf' =
                 [r \in Ranks |->
                     IF ranI /\ (r # 0 \/ okI) THEN ITCF_zero(spgf[r]) ELSE spgf[r]]
           /\ spgf_global' =
                 [r \in Ranks |->
                     IF ~ranI THEN spgf_global[r]
                     ELSE IF r = 0 /\ ~okI THEN globI
                     ELSE ITCF_zero(spgf_global[r])]
           /\ itcf_pushed' = IF okI THEN <<tf.row>> ELSE <<>>
           /\ itcf_output_index' =
                 IF okI THEN itcf_output_index + 1 ELSE itcf_output_index
           /\ wrote' =
                 {<<r, "mixed">> : r \in {q \in A0 : ranM /\ ~fullM /\ Est_writes(comm, q)}}
                 \cup {<<r, "back_prop">> : r \in {q \in {0} : ranB /\ ~fullB}}
                 \cup {<<r, "itcf">> : r \in {q \in {0} : okI}}
                 \cup {<<r, "flush">> : r \in {q \in Alive(rrI) : Est_writes(comm, q)}}
           /\ rank_raised' = rrI
           /\ raised' = Est_raised(rrI)
           /\ step' = IF Alive(rrI) # {} THEN step + 1 ELSE step
           /\ pc' = IF Alive(rrI) # {} THEN Driver_pc(step + 1) ELSE pc
    /\ itcf_fired' = [r \in Ranks |-> FALSE]
    /\ itcf_seen' = [r \in Ranks |-> <<>>]
    /\ UNCHANGED <<free_projection, mixed_rdm, comm, nprocs, qmc_nsteps,
                   qmc_nmeasure, mixed_dm_pushed, clock, mixed_seen, calls,
                   print_args, trial_type, system_name, bp_nmax, restore_weights, bp_rdm,
                   nwalkers, bp_dm_pushed, walkers, bp_seen, bp_passes,
                   bp_invoked, bp_vecs, kern_vars, bp_on, h5f, itcf_tmax,
                   qmc_dt, itcf_stable, itcf_mode, itcf_nmax, itcf_nprop_tot,
                   phi_init, itcf_table>>


\* ------------------------------------------- the kernels on their own
\* entries and dimensions of the square matrices handed to gab
KernEntries == {CZero, CInt(1), CInt(-1), Cx(0, 1)}
KernDims == {1, 2}
\* the square, full-rank matrices of these entries
SquareInputs ==
    LET all == UNION { [1 .. n -> [1 .. n -> KernEntries]] : n \in KernDims }
    IN  { Eager([i \in 1 .. Len(A) |-> Eager(A[i])]) :
            A \in { X \in all : Det(X) # CZero } }
\* the systems and the Green's functions handed to local_energy: G.shape
\* is (2, nbasis, nbasis) for a spin-separated Green's function and
\* (2*nbasis, 2*nbasis) for a generalized one
KernSystems == {system, generic_system}
KernGreens ==
    { [shape |-> <<2, 2, 2>>,
       a |-> << << <<CInt(1), CZero>>, <<CZero, CZero>> >>,
                << <<CZero, CZero>>, <<CZero, CInt(1)>> >> >>],
      [shape |-> <<2, 2, 2>>,
       a |-> << << <<Cx(1, 1), Cx(0, 1)>>, <<Cx(2, -1), CInt(-1)>> >>,
                << <<<<1, 0, 2>>, Cx(1, 0)>>, <<Cx(0, -2), <<1, 1, 2>>>> >> >>],
      [shape |-> <<4, 4>>,
       a |-> << <<CInt(1), CZero, CZero, CZero>>,
                <<CZero, CZero, CZero, CZero>>,
                <<CZero, CZero, <<1, 0, 2>>, <<1, 0, 2>>>>,
                <<CZero, CZero, <<1, 0, 2>>, <<1, 0, 2>>>> >>] }

\* gab(A, A) called on its own
KernGab ==
    /\ kern_call = "none"
    /\ kern_out' = gab(kern_A, kern_A)
    /\ kern_call' = "gab"
    /\ UNCHANGED <<kern_A, kern_sys, kern_G, stack_vars, mixed_vars, bp_vars,
                   est_vars>>

\* local_energy(system, G) called on its own
KernLocalEnergy ==
    /\ kern_call = "none"
    /\ kern_out' = local_energy(kern_sys, kern_G.a, kern_G.shape)
    /\ kern_call' = "local_energy"
    /\ UNCHANGED <<kern_A, kern_sys, kern_G, stack_vars, mixed_vars, bp_vars,
                   est_vars>>

\* the propagator and the equal-time pair handed to the stable
\* recursions called on their own
KernTau ==
    [B |-> << <<CInt(1), CInt(1)>>, <<CInt(0), CInt(1)>> >>,
     Gnn_gr |-> << <<CInt(0), CInt(0)>>, <<CInt(-1), CInt(0)>> >>,
     Gnn_ls |-> << <<CInt(1), CInt(0)>>, <<CInt(1), CInt(1)>> >>]
\* increment_tau_uhf_stable and increment_tau_ghf_stable called on their
\* own with the same propagator and the same equal-time pair in the two
\* formulations: the generalized one on the running matrix kern_A, the
\* spin-separated one, dot product by dot product, on the columns of
\* kern_A for the greater function and on its rows for the lesser one
KernIncrementTau ==
    /\ kern_call = "none"
    /\ NRows(kern_A) = 2
    /\ kern_out' =
          [ghf |-> increment_tau_ghf_stable(kern_A, kern_A, KernTau.B,
                                            KernTau.Gnn_gr, KernTau.Gnn_ls),
           uhf |-> increment_tau_uhf_stable(
                       Transpose(kern_A), <<kern_A[1], kern_A[1]>>,
                       <<KernTau.B, KernTau.B>>,
                       <<KernTau.Gnn_gr, KernTau.Gnn_gr>>,
                       <<KernTau.Gnn_ls, KernTau.Gnn_ls>>)]
    /\ kern_call' = "increment_tau"
    /\ UNCHANGED <<kern_A, kern_sys, kern_G, stack_vars, mixed_vars, bp_vars,
                   est_vars>>

\* update_stack is not called
StackIdle ==
    /\ stack_size = 1
    /\ num_slices = 1
    /\ lower_bound = 1
    /\ upper_bound = 1
    /\ stack_pc = "idle"
    /\ stack_ret = 0

\* no kernel is called on its own
KernIdle ==
    /\ kern_A = <<>>
    /\ kern_sys = system
    /\ kern_G = <<>>
    /\ kern_call = "none"
    /\ kern_out = <<>>
    /\ StackIdle

\* ------------------------------------------------ utils.misc.update_stack
\* mutant: a tie goes to the upper bound
update_stack_select_upper(size, lower, upper) ==
    IF (size - lower) < (upper - size) THEN lower ELSE upper

\* the choice between the two bounds: lower_bound when
\* (stack_size-lower_bound) <= (upper_bound - stack_size)
update_stack_select(size, lower, upper) ==
    IF (size - lower) <= (upper - size) THEN lower ELSE upper

\* one test of the first loop: lower_bound -= 1 while it does not divide
\* num_slices
StackLower ==
    /\ stack_pc = "lower"
    /\ IF (num_slices \div lower_bound) * lower_bound < num_slices
       THEN lower_bound' = lower_bound - 1 /\ UNCHANGED stack_pc
       ELSE stack_pc' = "upper" /\ UNCHANGED lower_bound
    /\ UNCHANGED <<stack_size, num_slices, upper_bound, stack_ret, kern_A,
                   kern_sys, kern_G, kern_call, kern_out, mixed_vars, bp_vars,
                   est_vars>>

\* one test of the second loop: upper_bound += 1 while it does not divide
\* num_slices
StackUpper ==
    /\ stack_pc = "upper"
    /\ IF (num_slices \div upper_bound) * upper_bound < num_slices
       THEN upper_bound' = upper_bound + 1 /\ UNCHANGED stack_pc
       ELSE stack_pc' = "select" /\ UNCHANGED upper_bound
    /\ UNCHANGED <<stack_size, num_slices, lower_bound, stack_ret, kern_A,
                   kern_sys, kern_G, kern_call, kern_out, mixed_vars, bp_vars,
                   est_vars>>

\* the assignment to stack_size and the return
StackReturn ==
    /\ stack_pc = "select"
    /\ stack_ret' = update_stack_select(stack_size, lower_bound, upper_bound)
    /\ stack_pc' = "done"
    /\ UNCHANGED <<stack_size, num_slices, lower_bound, upper_bound, kern_A,
                   kern_sys, kern_G, kern_call, kern_out, mixed_vars, bp_vars,
                   est_vars>>

\* ------------------------------------------------------ specifications
\* the back-propagation accumulator is not configured
BPIdle ==
    /\ trial_type = "UHF"
    /\ system_name = "Hubbard"
    /\ bp_nmax = 1
    /\ restore_weights = "None"
    /\ bp_rdm = FALSE
    /\ nwalkers = 0
    /\ bp_estimates = [r \in Ranks |-> BP_zero_buffer(trial_type)]
    /\ bp_global_estimates = [r \in Ranks |-> BP_zero_buffer(trial_type)]
    /\ bp_output_index = 0
    /\ bp_pushed = <<>>
    /\ bp_dm_pushed = <<>>
    /\ walkers = [r \in Ranks |-> <<>>]
    /\ step = 0
    /\ pc = "done"
    /\ bp_seen = [r \in Ranks |-> <<>>]
    /\ bp_passes = [r \in Ranks |-> 0]
    /\ bp_invoked = [r \in Ranks |-> "none"]
    /\ bp_vecs = <<>>

\* the mixed accumulator as constructed, never called
MixedIdle ==
    /\ free_projection = FALSE
    /\ mixed_rdm = FALSE
    /\ qmc_nmeasure = 1
    /\ clock = 0
    /\ mixed_estimates = [r \in Ranks |-> Mixed_init_estimates(clock)]
    /\ mixed_global_estimates = [r \in Ranks |-> ZeroBuffer]
    /\ mixed_output_index = 0
    /\ mixed_pushed = <<>>
    /\ mixed_dm_pushed = <<>>
    /\ mixed_seen = [r \in Ranks |-> EmptyBag]
    /\ calls = <<"init", "init">>
    /\ print_args = <<>>

\* Estimators.__init__ / Mixed.__init__ on every rank
MixedInit ==
    /\ free_projection \in BOOLEAN
    /\ mixed_rdm \in BOOLEAN
    /\ nprocs \in ProcCounts
    /\ comm = IF nprocs = 1 THEN "None" ELSE "MPI"
    /\ qmc_nsteps = MaxSteps
    /\ qmc_nmeasure \in Measures
    /\ clock = 0
    /\ mixed_estimates = [r \in Ranks |-> Mixed_init_estimates(clock)]
    /\ mixed_global_estimates = [r \in Ranks |-> ZeroBuffer]
    /\ mixed_output_index = 0
    /\ mixed_pushed = <<>>
    /\ mixed_dm_pushed = <<>>
    /\ raised = "none"
    /\ mixed_seen = [r \in Ranks |-> EmptyBag]
    /\ calls = <<"init", "init">>
    /\ print_args = <<>>
    /\ BPIdle
    /\ KernIdle
    /\ EstIdle

MixedNext ==
    \/ \E r \in Ranks, ws \in Populations : MixedUpdate(r, ws)
    \/ \E m \in {1, qmc_nmeasure}, t1, t2 \in ClockReadings :
          clock <= t1 /\ t1 <= t2 /\ MixedPrintStep(m, t1, t2)

SpecMixed == MixedInit /\ [][MixedNext]_vars

\* runs drawn: the communicator, the process count, the walkers per rank
\* and the rdm option
BPLayouts ==
    { [comm |-> "None", nprocs |-> 1, nwalkers |-> 1, rdm |-> FALSE, name |-> "Hubbard"],
      [comm |-> "MPI", nprocs |-> 1, nwalkers |-> 1, rdm |-> TRUE, name |-> "Hubbard"],
      [comm |-> "MPI", nprocs |-> 1, nwalkers |-> 2, rdm |-> FALSE, name |-> "Hubbard"],
      [comm |-> "MPI", nprocs |-> 2, nwalkers |-> 1, rdm |-> TRUE, name |-> "Hubbard"],
      [comm |-> "MPI", nprocs |-> 1, nwalkers |-> 1, rdm |-> FALSE, name |-> "Generic"] }

\* Estimators.__init__ / BackPropagation.__init__ on every rank, the
\* population as constructed from the trial state, the driver at its
\* first step
BPInit ==
    /\ trial_type \in {"UHF", "GHF"}
    /\ bp_nmax \in 1 .. MaxNbp
    /\ restore_weights \in {"None", "full", "simple"}
    /\ \E l \in BPLayouts :
          /\ comm = l.comm /\ nprocs = l.nprocs /\ nwalkers = l.nwalkers
          /\ bp_rdm = l.rdm /\ system_name = l.name
    /\ qmc_nsteps = 2 * bp_nmax + 1
    /\ bp_estimates = [r \in Ranks |-> BP_zero_buffer(trial_type)]
    /\ bp_global_estimates = [r \in Ranks |-> BP_zero_buffer(trial_type)]
    /\ bp_output_index = 0
    /\ bp_pushed = <<>>
    /\ bp_dm_pushed = <<>>
    /\ walkers = [r \in Ranks |-> [i \in 1 .. nwalkers |->
                     [phi_old |-> trial_psi(trial_type),
                      phi_bp |-> wb_phi(trial_type, 1)]]]
    /\ step = Driver_first_step
    /\ pc = "update"
    /\ bp_seen = [r \in Ranks |-> <<>>]
    /\ bp_passes = [r \in Ranks |-> 0]
    /\ bp_invoked = [r \in Ranks |-> "none"]
    /\ bp_vecs = BP_vec_table(trial_type)
    /\ raised = "none"
    /\ MixedIdle
    /\ KernIdle
    /\ EstIdle

BPNext ==
    \/ \E psi \in (IF BP_fires(step, bp_nmax)
                   THEN [Ranks -> PsiInputs(nwalkers)]
                   ELSE {[r \in Ranks |-> <<>>]}) : BPUpdate(psi)
    \/ BPPrintStep

SpecBP == BPInit /\ [][BPNext]_vars

\* the kernels called with arguments drawn from the input sets, no
\* accumulator configured
KernInit ==
    /\ kern_A \in SquareInputs
    /\ kern_sys \in KernSystems
    /\ kern_G \in KernGreens
    /\ kern_call = "none"
    /\ kern_out = <<>>
    /\ StackIdle
    /\ nprocs = 1
    /\ comm = "None"
    /\ qmc_nsteps = 1
    /\ raised = "none"
    /\ MixedIdle
    /\ BPIdle
    /\ EstIdle

KernNext == KernGab \/ KernLocalEnergy \/ KernIncrementTau

SpecKernel == KernInit /\ [][KernNext]_vars

\* Estimators.__init__ on every rank and the population as constructed
\* from the trial state
EstConstructed ==
    /\ \E l \in EstLayouts :
          comm = l.comm /\ nprocs = l.nprocs /\ nwalkers = l.nwalkers
    /\ qmc_nmeasure \in Measures
    /\ free_projection = FALSE
    /\ mixed_rdm = FALSE
    /\ clock = 0
    /\ mixed_estimates = [r \in Ranks |-> Mixed_init_estimates(clock)]
    /\ mixed_global_estimates = [r \in Ranks |-> ZeroBuffer]
    /\ mixed_output_index = 0
    /\ mixed_pushed = <<>>
    /\ mixed_dm_pushed = <<>>
    /\ mixed_seen = [r \in Ranks |-> EmptyBag]
    /\ calls = <<"init", "init">>
    /\ print_args = <<>>
    /\ trial_type = "UHF"
    /\ system_name = "Hubbard"
    /\ \E b \in EstBPOptions : bp_on = b.on /\ bp_nmax = b.nmax
    /\ restore_weights = "None"
    /\ bp_rdm = FALSE
    /\ bp_estimates = [r \in Ranks |-> BP_zero_buffer(trial_type)]
    /\ bp_global_estimates = [r \in Ranks |-> BP_zero_buffer(trial_type)]
    /\ bp_output_index = 0
    /\ bp_pushed = <<>>
    /\ bp_dm_pushed = <<>>
    /\ walkers = [r \in Ranks |-> [i \in 1 .. nwalkers |->
                     [phi_old |-> trial_psi(trial_type),
                      phi_bp |-> wb_phi(trial_type, 1)]]]
    /\ pc = "update"
    /\ bp_seen = [r \in Ranks |-> <<>>]
    /\ bp_passes = [r \in Ranks |-> 0]
    /\ bp_invoked = [r \in Ranks |-> "none"]
    /\ bp_vecs = BP_vec_table(trial_type)
    /\ \E o \in EstITCFOptions :
          /\ itcf_tmax = o.tmax /\ qmc_dt = o.dt
          /\ itcf_stable = o.stable /\ itcf_mode = o.mode
    /\ itcf_nmax = ITCF_nmax(itcf_tmax, qmc_dt)
    /\ itcf_nprop_tot = ITCF_nprop_tot(itcf_nmax, Est_nbp(bp_on, bp_nmax))
    /\ h5f = [r \in Ranks |-> Est_h5f(r)]
    /\ rank_raised = [r \in Ranks |-> Est_construct(r, bp_on, bp_nmax, itcf_nmax)]
    /\ raised = Est_raised(rank_raised)
    /\ wrote = {}
    /\ spgf = [r \in Ranks |-> ITCF_zero_spgf(itcf_nmax)]
    /\ spgf_global = [r \in Ranks |-> ITCF_zero_spgf(itcf_nmax)]
    /\ itcf_output_index = 0
    /\ itcf_pushed = <<>>
    /\ phi_init = [r \in Ranks |-> [i \in 1 .. nwalkers |-> trial_psi(trial_type)]]
    /\ itcf_fired = [r \in Ranks |-> FALSE]
    /\ itcf_seen = [r \in Ranks |-> <<>>]
    /\ itcf_table = ITCF_table(itcf_nmax, itcf_stable)
    /\ KernIdle

\* the driver at its first step
EstInit ==
    /\ EstConstructed
    /\ qmc_nsteps \in EstRunLengths
    /\ step = Driver_first_step

\* a driver that counts its steps from 0: update then print_step at the
\* steps 0, 1, 2, ...
EstZeroRunLengths == {2, 3}
EstZeroInit ==
    /\ EstConstructed
    /\ qmc_nsteps \in EstZeroRunLengths
    /\ step = 0

EstNext ==
    \/ \E psi \in EstInputs(nwalkers) : EstUpdate(psi)
    \/ EstPrintStep

SpecEst == EstInit /\ [][EstNext]_vars

SpecEstZero == EstZeroInit /\ [][EstNext]_vars

\* update_stack(stack_size, num_slices) entered with arguments drawn from
\* 1 .. MaxStack and 1 .. MaxSlices, its first two assignments done; no
\* accumulator configured
StackInit ==
    /\ stack_size \in 1 .. MaxStack
    /\ num_slices \in 1 .. MaxSlices
    /\ lower_bound = (IF stack_size < num_slices THEN stack_size ELSE num_slices)
    /\ upper_bound = (IF stack_size < num_slices THEN stack_size ELSE num_slices)
    /\ stack_pc = "lower"
    /\ stack_ret = 0
    /\ kern_A = <<>>
    /\ kern_sys = system
    /\ kern_G = <<>>
    /\ kern_call = "none"
    /\ kern_out = <<>>
    /\ nprocs = 1
    /\ comm = "None"
    /\ qmc_nsteps = 1
    /\ raised = "none"
    /\ MixedIdle
    /\ BPIdle
    /\ EstIdle

StackNext == StackLower \/ StackUpper \/ StackReturn

\* the function runs to its return: a single thread, every step taken
SpecStack == StackInit /\ [][StackNext]_vars /\ WF_vars(StackNext)



\* =================================================================
\* Properties of the mixed accumulator (checked under SpecMixed)
\* =================================================================
RECURSIVE CSumSet(_, _)
CSumSet(S, f) ==
    IF S = {} THEN CZero
    ELSE LET e == CHOOSE x \in S : TRUE IN CAdd(f[e], CSumSet(S \ {e}, f))

\* the sum of F over a bag of walkers, with multiplicity
BagSum(B, F(_)) ==
    CSumSet(DOMAIN B, [e \in DOMAIN B |-> CMul(CInt(B[e]), F(e))])

\* the sum over the ranks of f[r]
RankSum(f) == CSumSet(Ranks, f)

PrintStepReturned == calls[2] = "print_step" /\ raised = "none"

\* C1: after every call of Mixed.print_step that returns, on every rank,
\* every entry of the local buffer and of the global buffer is zero, except
\* the local time field, which holds the timestamp just read.
C1_ResetAfterEmission ==
    PrintStepReturned =>
        \A r \in Ranks :
            /\ \A i \in MixedIdx \ {ns_time} : mixed_estimates[r][i] = CZero
            /\ mixed_estimates[r][ns_time] = CInt(clock)
            /\ \A i \in MixedIdx : mixed_global_estimates[r][i] = CZero

\* C1 witness: two ranks have emitted a row carrying accumulated weight and
\* density-matrix values, at a later clock reading.
C1_Witness ==
    /\ PrintStepReturned /\ nprocs = 2 /\ mixed_rdm /\ clock > 0
    /\ mixed_pushed # <<>> /\ mixed_pushed[1][ns_weight] # CZero
    /\ mixed_dm_pushed # <<>> /\ mixed_dm_pushed[1][ns_time + 1] # CZero

\* C2 (as claimed): between two resets, in importance-sampled mode, the
\* buffer of every rank equals the sum over the walkers seen, in any order
\* and any split into calls, of weight x (1, E, T, V) added to (weight total
\* and denominator, numerator, kinetic, potential); the projected-energy
\* and time fields are untouched.
C2_BufferIsWalkerSum ==
    (~free_projection /\ raised = "none") =>
        \A r \in Ranks :
            LET W(w) == CInt(w.weight)
                WE(w) == CMul(CInt(w.weight), w.E)
                WT(w) == CMul(CInt(w.weight), w.T)
                WV(w) == CMul(CInt(w.weight), w.V)
                es == mixed_estimates[r]
            IN  /\ es[ns_weight] = BagSum(mixed_seen[r], W)
                /\ es[ns_edenom] = BagSum(mixed_seen[r], W)
                /\ es[ns_enumer] = BagSum(mixed_seen[r], WE)
                /\ es[ns_ekin] = BagSum(mixed_seen[r], WT)
                /\ es[ns_epot] = BagSum(mixed_seen[r], WV)
                /\ es[ns_eproj] = CZero
                /\ es[ns_time] = CInt(clock)

\* What the code keeps of C2: the same statement with the real parts of
\* E, T and V (additive, independent of order and of the split into calls).
Mixed_RealPartSum ==
    (~free_projection /\ raised = "none") =>
        \A r \in Ranks :
            LET W(w) == CInt(w.weight)
                WE(w) == CMul(CInt(w.weight), CReal(w.E))
                WT(w) == CMul(CInt(w.weight), CReal(w.T))
                WV(w) == CMul(CInt(w.weight), CReal(w.V))
                es == mixed_estimates[r]
            IN  /\ es[ns_weight] = BagSum(mixed_seen[r], W)
                /\ es[ns_edenom] = BagSum(mixed_seen[r], W)
                /\ es[ns_enumer] = BagSum(mixed_seen[r], WE)
                /\ es[ns_ekin] = BagSum(mixed_seen[r], WT)
                /\ es[ns_epot] = BagSum(mixed_seen[r], WV)
                /\ es[ns_eproj] = CZero
                /\ es[ns_time] = CInt(clock)

\* C3 (as claimed): in free-projection mode every walker adds
\* weight*overlap to the denominator, weight*overlap*E to the numerator,
\* weight*overlap*T to the kinetic sum and weight*overlap*V to the
\* potential sum.
C3_FreeProjectionWeighting ==
    (free_projection /\ raised = "none") =>
        \A r \in Ranks :
            LET WO(w) == CMul(CInt(w.weight), w.ot)
                WOE(w) == CMul(CMul(CInt(w.weight), w.ot), w.E)
                WOT(w) == CMul(CMul(CInt(w.weight), w.ot), w.T)
                WOV(w) == CMul(CMul(CInt(w.weight), w.ot), w.V)
                es == mixed_estimates[r]
            IN  /\ es[ns_edenom] = BagSum(mixed_seen[r], WO)
                /\ es[ns_enumer] = BagSum(mixed_seen[r], WOE)
                /\ es[ns_ekin] = BagSum(mixed_seen[r], WOT)
                /\ es[ns_epot] = BagSum(mixed_seen[r], WOV)

\* What the code does in free-projection mode: denominator and numerator
\* are weighted by weight*overlap, the weight total by the plain weight,
\* and the kinetic and potential sums stay zero.
Mixed_FreeProjectionSum ==
    (free_projection /\ raised = "none") =>
        \A r \in Ranks :
            LET W(w) == CInt(w.weight)
                WO(w) == CMul(CInt(w.weight), w.ot)
                WOE(w) == CMul(CMul(CInt(w.weight), w.ot), w.E)
                es == mixed_estimates[r]
            IN  /\ es[ns_weight] = BagSum(mixed_seen[r], W)
                /\ es[ns_edenom] = BagSum(mixed_seen[r], WO)
                /\ es[ns_enumer] = BagSum(mixed_seen[r], WOE)
                /\ es[ns_ekin] = CZero
                /\ es[ns_epot] = CZero

\* the row the claim C4 describes, from the ranks' buffers es at the call
C4_ExpectedRow(es, P, m, t1) ==
    LET Share(i) ==
            RankSum([r \in Ranks |->
                        CDiv(es[r][i], CMul(es[r][ns_edenom], CInt(P)))])
        Total(i) == CDiv(RankSum([r \in Ranks |-> es[r][i]]), CInt(m))
    IN  [i \in 0 .. ns_time |->
            CASE i = ns_eproj -> Share(ns_enumer)
              [] i \in {ns_ekin, ns_epot} -> Share(i)
              [] i = ns_time ->
                    CDiv(RankSum([r \in Ranks |->
                            CDiv(CSub(CInt(t1), es[r][ns_time]), CInt(P))]),
                         CInt(m))
              [] OTHER -> Total(i)]

\* C4: the row written by Mixed.print_step(P ranks, nmeasure = m) has
\* E, EKin, EPot equal to the sum over the ranks r of X_r/(denominator_r*P)
\* (independent of m) and Weight, E_num, E_denom equal to the cross-rank
\* sums divided by m.
C4_RowNormalisation ==
    [][(calls'[2] = "print_step" /\ mixed_pushed' # <<>>) =>
          mixed_pushed'[1] =
              C4_ExpectedRow(mixed_estimates, nprocs, print_args'[1], print_args'[2])
      ]_mixed_vars

\* C4 witness: a row written by two ranks with nmeasure = 2 and finite,
\* non-zero energies.
C4_Witness ==
    /\ PrintStepReturned /\ nprocs = 2 /\ print_args[1] = 2
    /\ mixed_pushed # <<>>
    /\ \A i \in {ns_eproj, ns_ekin, ns_epot} :
          IsFinite(mixed_pushed[1][i]) /\ mixed_pushed[1][i] # CZero

\* C5: print_step called while a rank's accumulated denominator is exactly
\* zero still pushes a row, whose E, EKin and EPot entries are not finite,
\* and resets the accumulator.
C5_ZeroDenominatorSurfaces ==
    [][(calls'[2] = "print_step" /\ raised' = "none"
            /\ \E r \in Ranks : mixed_estimates[r][ns_edenom] = CZero) =>
          /\ mixed_pushed' # <<>>
          /\ \A i \in {ns_eproj, ns_ekin, ns_epot} : ~IsFinite(mixed_pushed'[1][i])
          /\ \A r \in Ranks :
                /\ \A i \in MixedIdx \ {ns_time} : mixed_estimates'[r][i] = CZero
                /\ mixed_estimates'[r][ns_time] = CInt(clock')
      ]_mixed_vars

\* C5 witness: the first call after construction is print_step; its row
\* carries the failure marker in the E column.
C5_Witness ==
    /\ calls = <<"init", "print_step">> /\ raised = "none"
    /\ mixed_pushed # <<>> /\ ~IsFinite(mixed_pushed[1][ns_eproj])

\* C6: print_step called twice in a row with no update in between: the
\* row of the second call has zero numerator, denominator and weight.
C6_SecondRowIsZero ==
    (calls = <<"print_step", "print_step">> /\ raised = "none") =>
        /\ mixed_pushed # <<>>
        /\ mixed_pushed[1][ns_enumer] = CZero
        /\ mixed_pushed[1][ns_edenom] = CZero
        /\ mixed_pushed[1][ns_weight] = CZero

\* C6 witness: two emissions in a row on two ranks, the first of them
\* after an accumulation (the cursor stands at 2).
C6_Witness ==
    /\ calls = <<"print_step", "print_step">> /\ raised = "none"
    /\ nprocs = 2 /\ mixed_output_index = 2 /\ mixed_pushed # <<>>

\* C7 (as claimed): in importance-sampled mode the imaginary parts of the
\* numerator, kinetic and potential sums equal the sums over the walkers
\* seen of weight x Im(E), weight x Im(T), weight x Im(V).
C7_ImaginaryPartKept ==
    (~free_projection /\ raised = "none") =>
        \A r \in Ranks :
            LET WE(w) == CMul(CInt(w.weight), CImag(w.E))
                WT(w) == CMul(CInt(w.weight), CImag(w.T))
                WV(w) == CMul(CInt(w.weight), CImag(w.V))
                es == mixed_estimates[r]
            IN  /\ CImag(es[ns_enumer]) = BagSum(mixed_seen[r], WE)
                /\ CImag(es[ns_ekin]) = BagSum(mixed_seen[r], WT)
                /\ CImag(es[ns_epot]) = BagSum(mixed_seen[r], WV)

\* =================================================================
\* Properties of the back-propagation accumulator (checked under SpecBP)
\* =================================================================
\* the step is a call of BackPropagation.update
BPUpdateCalled == pc = "update" /\ pc' = "print_step"

\* C8: BackPropagation.update (update_uhf and update_ghf) at a step with
\* step mod nback_prop # 0 invokes no back-propagation routine and leaves
\* the estimates buffer and every walker's old snapshot and
\* back-propagated state as they were; at a step with
\* step mod nback_prop = 0 it invokes the routine and accumulates.
C8_NoOpOffWindow ==
    [][BPUpdateCalled =>
          IF step % bp_nmax # 0
          THEN /\ \A r \in Ranks : bp_invoked'[r] = "none"
               /\ bp_estimates' = bp_estimates
               /\ walkers' = walkers
               /\ bp_passes' = bp_passes
          ELSE \A r \in Ranks :
                  /\ bp_invoked'[r] # "none"
                  /\ bp_passes'[r] = bp_passes[r] + 1
                  /\ Len(bp_seen'[r]) = Len(bp_seen[r]) + nwalkers
      ]_vars

\* C8 witness: update has returned at a step off the window (step 3 of a
\* window of 2) in a GHF run, after a row was written and with the
\* walker's snapshot no longer the trial state.
C8_Witness ==
    /\ pc = "print_step" /\ raised = "none"
    /\ bp_nmax = 2 /\ step = 3 /\ trial_type = "GHF"
    /\ bp_output_index = 1
    /\ walkers[0][1].phi_old # trial_psi(trial_type)
    /\ bp_invoked[0] = "none"

\* C9: with the driver calling update(step) then print_step(step) for
\* step = 1 .. nsteps, every row is emitted after exactly one accumulation
\* pass of every rank over its population, no rank ever holds two passes,
\* and whenever print_step has returned no accumulation is pending.
C9_OnePassPerRow ==
    [][/\ bp_output_index' # bp_output_index =>
             \A r \in Ranks :
                /\ bp_passes[r] = 1
                /\ Len(bp_seen[r]) = nwalkers
                /\ bp_passes'[r] = 0
       /\ \A r \in Ranks : bp_passes'[r] <= 1
       /\ (pc = "print_step" /\ pc' # "print_step") =>
             \A r \in Ranks : bp_passes'[r] = 0
      ]_vars

\* C9 witness: two ranks have emitted the second row of a run with a
\* window of 2 steps.
C9_Witness ==
    /\ raised = "none" /\ nprocs = 2 /\ bp_nmax = 2
    /\ bp_output_index = 2 /\ bp_pushed # <<>>
    /\ bp_pushed[1][0] # CZero /\ IsFinite(bp_pushed[1][1])

\* the weight the claim C10 gives a walker under the policy rw
C10_Weight(w, nmax, rw) ==
    LET b == get_block(w, nmax)
        n == Len(b.weight_fac)
    IN  CASE rw = "None" -> CInt(w.weight)
          [] rw = "full" ->
                CMul(CInt(w.weight),
                     CProdSeq([k \in 1 .. n |-> CDiv(b.weight_fac[k], b.cos_fac[k])]))
          [] OTHER ->
                CMul(CInt(w.weight), CProdSeq([k \in 1 .. n |-> b.weight_fac[k]]))

\* C10: in the spin-separated path the buffer of every rank is the sum,
\* over the walkers accumulated since the last reset, of W x (1, E, T, V, G)
\* with W the plain weight when restore_weights is None, the weight times
\* the product of weight_factor/cosine_factor over the stored steps when it
\* is "full", and the weight times the product of the weight factors for
\* any other policy.
C10_RestoreWeightPolicy ==
    trial_type = "UHF" =>
        \A r \in Ranks :
            LET seen == bp_seen[r]
                W == [i \in 1 .. Len(seen) |->
                         C10_Weight(seen[i].wnm, bp_nmax, restore_weights)]
            IN  \A j \in BPIdx(trial_type) :
                   bp_estimates[r][j] =
                      IF j = 0 THEN CSumSeq(W)
                      ELSE CSumSeq([i \in 1 .. Len(seen) |->
                                       CMul(W[i], seen[i].vec[j])])

\* C10 witness: a UHF run restoring full weights over a window of two
\* stored steps has accumulated a walker whose cosine factors are not all
\* one; the weight total is finite and differs from the plain weight.
C10_Witness ==
    /\ trial_type = "UHF" /\ restore_weights = "full" /\ bp_nmax = 2
    /\ pc = "print_step" /\ bp_seen[0] # <<>>
    /\ IsFinite(bp_estimates[0][0]) /\ IsFinite(bp_estimates[0][1])
    /\ bp_estimates[0][1] # CZero
    /\ bp_estimates[0][0] #
          CSumSeq([i \in 1 .. Len(bp_seen[0]) |-> CInt(bp_seen[0][i].wnm.weight)])

C21_SnapshotAfterAccumulation ==
    [][BPUpdateCalled =>
          IF step % bp_nmax = 0
          THEN \A r \in Ranks : \A i \in 1 .. nwalkers :
                  LET c == bp_seen'[r][Len(bp_seen[r]) + i]
                  IN  /\ c.vec = BP_vec(trial_type, wb_phi(trial_type, c.wnm.bp),
                                        walkers[r][i].phi_old)
                      /\ walkers'[r][i].phi_old = Dets(trial_type)[c.wnm.phi]
                      /\ walkers'[r][i].phi_bp = wb_phi(trial_type, c.wnm.bp)
          ELSE walkers' = walkers
      ]_vars
\* C21 witness: the second firing of a run has accumulated a walker
\* against a snapshot that is no longer the trial state, and the snapshot
\* now holds the walker's current determinant.
C21_Witness ==
    /\ pc = "print_step" /\ raised = "none"
    /\ step = 2 * bp_nmax /\ bp_output_index = 1
    /\ bp_seen[0] # <<>>
    /\ bp_seen[0][1].vec =
          BP_vec(trial_type, wb_phi(trial_type, bp_seen[0][1].wnm.bp),
                 Dets(trial_type)[2])
    /\ bp_seen[0][1].vec #
          BP_vec(trial_type, wb_phi(trial_type, bp_seen[0][1].wnm.bp),
                 trial_psi(trial_type))
    /\ bp_seen[0][1].wnm.phi = 1
    /\ walkers[0][1].phi_old = Dets(trial_type)[1]

\* the routine the construction selects from the trial type and the
\* system name, as C22 lists it
C22_Selected ==
    CASE trial_type = "GHF" /\ system_name = "Generic" -> "back_propagate_generic_uhf"
      [] trial_type = "GHF" /\ system_name # "Generic" -> "back_propagate_ghf"
      [] trial_type # "GHF" /\ system_name = "Generic" -> "back_propagate_generic"
      [] OTHER -> "back_propagate"
\* C22: the routine BackPropagation.update invokes at a firing step is
\* the one selected at construction from (trial type, system name).
C22_RoutineAsSelected ==
    [][(pc = "update" /\ raised = "none" /\ step % bp_nmax = 0) =>
          \A r \in Ranks : bp_invoked'[r] = C22_Selected]_vars
\* the same for the three selections update leaves in force
C22_RoutineAsSelectedButGenericGHF ==
    [][(pc = "update" /\ raised = "none" /\ step % bp_nmax = 0
        /\ ~(trial_type = "GHF" /\ system_name = "Generic")) =>
          \A r \in Ranks : bp_invoked'[r] = C22_Selected]_vars
\* a Generic system with a UHF trial has fired with the routine selected
C22_GenericFired ==
    /\ system_name = "Generic" /\ trial_type = "UHF"
    /\ pc = "print_step" /\ bp_invoked[0] = "back_propagate_generic"
    /\ bp_seen[0] # <<>>

\* C24: in the generalized path the buffer of every rank is the sum, over
\* the walkers accumulated since the last reset, of W x (1, E, T, V, G)
\* with W the weight the restore-weights policy gives the walker, as in
\* the spin-separated path.
C24_RestoreWeightPolicyGHF ==
    (trial_type = "GHF" /\ raised = "none") =>
        \A r \in Ranks :
            LET seen == bp_seen[r]
                W == [i \in 1 .. Len(seen) |->
                         C10_Weight(seen[i].wnm, bp_nmax, restore_weights)]
            IN  \A j \in BPIdx(trial_type) :
                   bp_estimates[r][j] =
                      IF j = 0 THEN CSumSeq(W)
                      ELSE CSumSeq([i \in 1 .. Len(seen) |->
                                       CMul(W[i], seen[i].vec[j])])
\* what holds of the generalized path: the plain weight under every policy
C24_PlainWeightGHF ==
    (trial_type = "GHF" /\ raised = "none") =>
        \A r \in Ranks :
            LET seen == bp_seen[r]
            IN  \A j \in BPIdx(trial_type) :
                   bp_estimates[r][j] =
                      IF j = 0
                      THEN CSumSeq([i \in 1 .. Len(seen) |-> CInt(seen[i].wnm.weight)])
                      ELSE CSumSeq([i \in 1 .. Len(seen) |->
                                       CMul(CInt(seen[i].wnm.weight), seen[i].vec[j])])

\* =================================================================
\* Properties of the kernels (checked under SpecKernel)
\* =================================================================
\* C19 (as claimed): for every square, full-rank A, with G = gab(A, A),
\* A^dagger (I - G) = A^dagger.
C19_ProjectorIdentity ==
    kern_call = "gab" =>
        MatMul(ConjT(kern_A), MatSub(Identity(NRows(kern_A)), kern_out))
            = ConjT(kern_A)

\* C19 (amended): for every square, full-rank A, with G = gab(A, A),
\* A^dagger G = A^dagger.
C19_BraAbsorbed ==
    kern_call = "gab" => MatMul(ConjT(kern_A), kern_out) = ConjT(kern_A)

\* C19 witness: gab has returned for a 2x2 matrix with a complex entry and
\* no zero entry.
C19_Witness ==
    /\ kern_call = "gab" /\ NRows(kern_A) = 2
    /\ kern_A[1][2] = Cx(0, 1)
    /\ \A i, j \in 1 .. 2 : kern_A[i][j] # CZero

\* C20 (as claimed): local_energy(system, G) returns a 3-tuple
\* (total, kinetic, potential) with total = kinetic + potential in every
\* dispatch case, and no case raises.
C20_TupleInEveryCase ==
    kern_call = "local_energy" =>
        /\ kern_out.raised = "none"
        /\ Len(kern_out.value) = 3
        /\ kern_out.value[1] = CAdd(kern_out.value[2], kern_out.value[3])

\* What the code keeps of C20: the two dispatch cases of a spin-separated
\* Green's function return the tuple, with total = kinetic + potential.
LocalEnergy_SpinSeparatedTuple ==
    (kern_call = "local_energy" /\ Len(kern_G.shape) = 3) =>
        /\ kern_out.raised = "none"
        /\ Len(kern_out.value) = 3
        /\ kern_out.value[1] = CAdd(kern_out.value[2], kern_out.value[3])

\* C25: the stable recursion has the same formulation in the
\* spin-separated and in the generalized representation: in both the
\* running greater function is multiplied on the left, Ggr <- (B G>) Ggr,
\* and the running lesser function on the right by the same factor,
\* Gls <- Gls (G< B^-1), so that the two routines build the same ordered
\* product for the lesser function.
C25_SameFormulation ==
    kern_call = "increment_tau" =>
        /\ Transpose(kern_out.ghf.gr) = kern_out.uhf.gr
        /\ kern_out.ghf.ls[1] = kern_out.uhf.ls[1]
        /\ kern_out.ghf.ls =
              MatMul(kern_A, MatMul(KernTau.Gnn_ls, Inv(KernTau.B)))
\* what holds: the greater functions are built alike, column by column;
\* the spin-separated lesser function is multiplied on the right, the
\* generalized one on the left
C25_GreaterAlikeLesserMirrored ==
    kern_call = "increment_tau" =>
        /\ Transpose(kern_out.ghf.gr) = kern_out.uhf.gr
        /\ kern_out.uhf.ls[1] =
              MatMul(kern_A, MatMul(KernTau.Gnn_ls, Inv(KernTau.B)))[1]
        /\ kern_out.ghf.ls =
              MatMul(MatMul(KernTau.Gnn_ls, Inv(KernTau.B)), kern_A)
\* a running matrix that does not commute with G< B^-1: the two lesser
\* functions differ in their first row
C25_LesserDiffers ==
    /\ kern_call = "increment_tau"
    /\ kern_out.ghf.ls[1] # kern_out.uhf.ls[1]

\* =================================================================
\* Properties of the accumulator container (checked under SpecEst)
\* =================================================================
\* every entry of every ITCF buffer is finite: no Green's function of the
\* runs drawn is taken over a singular overlap
Est_FiniteBuffers ==
    \A r \in Ranks : \A idx \in 1 .. Len(spgf[r]) : \A s, k, i, j \in 1 .. 2 :
        IsFinite(spgf[r][idx][s][k][i][j])

\* the buffer an update leaves is the one calculate_spgf computes from
\* the buffer it found and the walkers it read
Est_UpdateIsCalculateSpgf ==
    [][ \A r \in Ranks : (pc = "update" /\ itcf_fired'[r]) =>
            spgf'[r] = calculate_spgf(spgf[r], itcf_seen'[r], itcf_stable) ]_vars

\* C12: a zero-length window disables the accumulator without raising: on
\* no rank does the construction or a later call of a BackPropagation with
\* nback_prop = 0 or of an ITCF with Nmax = 0 raise, and an ITCF with
\* Nmax = 0 never accumulates.
C12_ZeroWindowDisables ==
    ((bp_on /\ bp_nmax = 0) \/ itcf_nmax = 0) =>
        \A r \in Ranks : rank_raised[r] # "ZeroDivisionError" /\ ~itcf_fired[r]
\* the three ways the zero-length window shows: the root stopped in the
\* construction, a rank stopped in BackPropagation.update, and an ITCF of
\* no slice beyond the first accumulating on a rank that holds no dataset
C12_RootRaises ==
    ~(step = Driver_first_step /\ pc = "update" /\ rank_raised[0] = "ZeroDivisionError")
C12_UpdateRaises ==
    ~(nprocs = 2 /\ bp_on /\ bp_nmax = 0 /\ rank_raised[1] = "ZeroDivisionError")
C12_DegenerateAccumulates ==
    ~(nprocs = 2 /\ itcf_nmax = 0 /\ itcf_fired[1])

\* the calls C13 and C18 speak of: made under a communicator with every
\* rank running, and returning on every rank
Est_CallReturns ==
    /\ comm # "None"
    /\ Alive(rank_raised) = Ranks
    /\ Alive(rank_raised') = Ranks
\* the reduced buffer of an emission, divided by the process count
Est_ReducedOverNprocs ==
    [idx \in 1 .. Len(spgf[0]) |-> [s \in 1 .. 2 |-> [k \in 1 .. 2 |->
        [i \in 1 .. 2 |-> [j \in 1 .. 2 |->
            CDiv(CSumSeq([r \in 1 .. nprocs |-> spgf[r - 1][idx][s][k][i][j]]),
                 CInt(nprocs))]]]]]

Est_G00(w, s, k) ==
    LET lo == IF s = 1 THEN 1 ELSE system.nup + 1
        hi == IF s = 1 THEN system.nup ELSE system.nup + system.ndown
        g  == gab(Cols(w.phi_bp, lo, hi), Cols(w.phi_init, lo, hi))
    IN  IF k = 1 THEN MatSub(Identity(system.nbasis), g) ELSE g
\* the weight-weighted average over the walkers ws of F(w, s, k), for
\* every spin s and ordering k: a slice of the buffer
Est_Average(ws, F(_, _, _)) ==
    LET den == CSumSeq([n \in 1 .. Len(ws) |-> CInt(ws[n].weight)])
    IN  Eager([s \in 1 .. 2 |-> Eager([k \in 1 .. 2 |->
            LET Gs == Eager([n \in 1 .. Len(ws) |-> F(ws[n], s, k)])
            IN  Eager([i \in 1 .. 2 |-> Eager([j \in 1 .. 2 |->
                    CDiv(CSumSeq([n \in 1 .. Len(ws) |->
                             CMul(CInt(ws[n].weight), Gs[n][i][j])]), den)])])])])
Est_ReG00(w, s, k) == MatReal(Est_G00(w, s, k))
\* an update that recomputes the buffer of the rank r from zero
Est_FirstAccumulation(r) ==
    /\ pc = "update"
    /\ itcf_fired'[r]
    /\ spgf[r] = ITCF_zero_spgf(itcf_nmax)

\* C14: after one ITCF accumulation from a zeroed buffer, under either
\* stabilisation policy, slice 0 is the weight-weighted average over the
\* walkers of the equal-time Green's function between the back-propagated
\* left state and the initial snapshot (greater = I - gab, lesser = gab),
\* whatever the later steps of the recursion do.
C14_SliceZeroIsGreensFunction ==
    [][ \A r \in Ranks : Est_FirstAccumulation(r) =>
            spgf'[r][1] = Est_Average(itcf_seen'[r], Est_G00) ]_vars

\* what holds of slice 0: it is the weight-weighted average of the real
\* part of that Green's function
C14_SliceZeroIsRealPart ==
    [][ \A r \in Ranks : Est_FirstAccumulation(r) =>
            spgf'[r][1] = Est_Average(itcf_seen'[r], Est_ReG00) ]_vars
\* two walkers of different weights accumulated along a path of two
\* steps, one of them with a Green's function that is not real
C14_ComplexAccumulated ==
    /\ itcf_fired[0]
    /\ itcf_nmax = 2
    /\ Len(itcf_seen[0]) = 2
    /\ itcf_seen[0][1].weight # itcf_seen[0][2].weight
    /\ \E n, s, k \in 1 .. 2 : Est_G00(itcf_seen[0][n], s, k) # Est_ReG00(itcf_seen[0][n], s, k)
    /\ spgf[0][1] = Est_Average(itcf_seen[0], Est_ReG00)

\* C15: for the same walkers, weights, stored path and reference states
\* and a window of one to three slices, the stable and the unstable
\* algorithm produce the same buffer, slice by slice, for both spins and
\* both orderings.
C15_StableEqualsUnstable ==
    \A r \in Ranks :
        (itcf_fired[r] /\ 1 <= itcf_nmax /\ itcf_nmax <= 3) =>
            calculate_spgf(ITCF_zero_spgf(itcf_nmax), itcf_seen[r], TRUE)
                = calculate_spgf(ITCF_zero_spgf(itcf_nmax), itcf_seen[r], FALSE)
\* the first slice is the same under both policies
C15_SliceZeroAgrees ==
    \A r \in Ranks :
        (itcf_fired[r] /\ 1 <= itcf_nmax /\ itcf_nmax <= 3) =>
            calculate_spgf(ITCF_zero_spgf(itcf_nmax), itcf_seen[r], TRUE)[1]
                = calculate_spgf(ITCF_zero_spgf(itcf_nmax), itcf_seen[r], FALSE)[1]

\* a print_step in which the leader reaches ITCF.to_file
Est_ToFileCalled ==
    /\ pc = "print_step"
    /\ comm # "None"
    /\ Alive(rank_raised) = Ranks
    /\ mixed_output_index < Mixed_output_rows
    /\ step # 0 /\ step % itcf_nprop_tot = 0
\* what to_file is to persist of the reduced buffer in the modes 'full'
\* and 'diagonal'
Est_RowExpected ==
    IF itcf_mode = "full" THEN Est_ReducedOverNprocs
    ELSE [idx \in 1 .. Len(spgf[0]) |-> [s \in 1 .. 2 |-> [k \in 1 .. 2 |->
             [i \in 1 .. 2 |-> Est_ReducedOverNprocs[idx][s][k][i][i]]]]]

\* C16: ITCF.to_file pushes exactly one row per call and never raises, for
\* each of the three output modes; 'full' persists every element of every
\* slice, 'diagonal' the diagonal over the two basis axes.
C16_ToFilePushesOneRow ==
    [][ Est_ToFileCalled =>
            /\ rank_raised'[0] = "none"
            /\ Len(itcf_pushed') = 1
            /\ itcf_output_index' = itcf_output_index + 1
            /\ itcf_mode \in {"full", "diagonal"} => itcf_pushed'[1] = Est_RowExpected ]_vars
\* the same for the modes 'full' and 'diagonal' alone
C16_FullAndDiagonalRows ==
    [][ (Est_ToFileCalled /\ itcf_mode \in {"full", "diagonal"}) =>
            /\ rank_raised'[0] = "none"
            /\ Len(itcf_pushed') = 1
            /\ itcf_output_index' = itcf_output_index + 1
            /\ itcf_pushed'[1] = Est_RowExpected ]_vars

\* a print_step in which the leader reaches the push of Mixed.print_step
Est_MixedPushCalled ==
    /\ pc = "print_step"
    /\ rank_raised[0] = "none"
    /\ comm = "None" \/ Alive(rank_raised) = Ranks

\* C17: with print_step called once per step, every emission advances the
\* write cursor of its dataset by exactly one, and no cursor exceeds the
\* rows fixed at construction: nsteps // nmeasure + 1 for the mixed
\* energies, nsteps // nback_prop for the back-propagated energies,
\* nsteps // Nmax for the ITCF.
C17_CursorsWithinRows ==
    [][ /\ Est_MixedPushCalled =>
              /\ mixed_output_index' = mixed_output_index + 1
              /\ mixed_output_index' <= (qmc_nsteps \div qmc_nmeasure) + 1
        /\ (bp_on /\ bp_nmax # 0) => bp_output_index' <= qmc_nsteps \div bp_nmax
        /\ itcf_nmax # 0 => itcf_output_index' <= qmc_nsteps \div itcf_nmax
        /\ rank_raised'[0] # "push" ]_vars
\* the cursors of the two windowed datasets stay within their rows, and
\* the mixed cursor never passes the rows of its dataset
C17_WindowedCursorsWithinRows ==
    /\ (bp_on /\ bp_nmax # 0) => bp_output_index <= qmc_nsteps \div bp_nmax
    /\ itcf_nmax # 0 => itcf_output_index <= qmc_nsteps \div itcf_nmax
    /\ mixed_output_index <= (qmc_nsteps \div qmc_nmeasure) + 1
\* the push refused: more calls of Mixed.print_step than rows
C17_MixedPushRefused ==
    ~(rank_raised[0] = "push" /\ mixed_output_index = Mixed_output_rows
      /\ step > Mixed_output_rows)

\* C18: in a run of several processes only rank 0 pushes to a dataset or
\* flushes the file, and the other ranks hold no file handle; yet every
\* rank takes part in the reduction of every emission (the row written
\* holds the sum over all ranks) and zeroes its local and global buffers,
\* so all ranks start the next window from zeroed buffers.
C18_LeaderWritesAllReduce ==
    [][ nprocs > 1 =>
          /\ \A w \in wrote' : w[1] = 0
          /\ \A r \in Ranks \ {0} : h5f'[r] = "None"
          /\ (pc = "print_step" /\ Est_CallReturns) =>
                /\ {<<0, "mixed">>, <<0, "flush">>} \subseteq wrote'
                /\ mixed_pushed'[1][ns_weight] =
                      CDiv(CSumSeq([r \in 1 .. nprocs |-> mixed_estimates[r - 1][ns_weight]]),
                           CInt(qmc_nmeasure))
                /\ \A r \in Ranks :
                      /\ mixed_estimates'[r] = [ZeroBuffer EXCEPT ![ns_time] = CInt(clock')]
                      /\ mixed_global_estimates'[r] = ZeroBuffer
                /\ (bp_on /\ step % bp_nmax = 0) =>
                      /\ <<0, "back_prop">> \in wrote'
                      /\ bp_pushed'[1][0] =
                            CDiv(CSumSeq([r \in 1 .. nprocs |-> bp_estimates[r - 1][0]]),
                                 CInt(nprocs))
                      /\ \A r \in Ranks :
                            /\ bp_estimates'[r] = BP_zero_buffer(trial_type)
                            /\ bp_global_estimates'[r] = BP_zero_buffer(trial_type)
                /\ step % itcf_nprop_tot = 0 =>
                      /\ <<0, "itcf">> \in wrote'
                      /\ itcf_mode = "full" => itcf_pushed'[1] = Est_ReducedOverNprocs
                      /\ \A r \in Ranks :
                            /\ spgf'[r] = ITCF_zero_spgf(itcf_nmax)
                            /\ spgf_global'[r] = ITCF_zero_spgf(itcf_nmax) ]_vars
\* an emission of all three accumulators in a run of two processes: the
\* leader has written and flushed, the other rank holds no handle and has
\* zeroed its buffers
C18_Witness ==
    /\ nprocs = 2
    /\ wrote = {<<0, "mixed">>, <<0, "back_prop">>, <<0, "itcf">>, <<0, "flush">>}
    /\ h5f[1] = "None"
    /\ itcf_pushed # <<>> /\ bp_pushed # <<>> /\ mixed_pushed # <<>>
    /\ spgf[1] = ITCF_zero_spgf(itcf_nmax)
    /\ spgf_global[1] = ITCF_zero_spgf(itcf_nmax)
    /\ bp_estimates[1] = BP_zero_buffer(trial_type)

\* =================================================================
\* Properties of update_stack (checked under SpecStack)
\* =================================================================
\* the divisors of num_slices and the distance to the stack_size asked for
Stack_Divisors == {d \in 1 .. num_slices : num_slices % d = 0}
Stack_Dist(d) == IF d < stack_size THEN stack_size - d ELSE d - stack_size
\* what C30 says of the value returned
C30_Returned ==
    stack_pc = "done" =>
        /\ stack_ret \in Stack_Divisors
        /\ \A d \in Stack_Divisors :
              /\ Stack_Dist(stack_ret) <= Stack_Dist(d)
              /\ Stack_Dist(stack_ret) = Stack_Dist(d) => stack_ret <= d
        /\ stack_size \in Stack_Divisors => stack_ret = stack_size
\* C30: for stack_size >= 1 and num_slices >= 1 update_stack terminates
\* and returns a divisor d of num_slices, 1 <= d <= num_slices, with no
\* divisor strictly closer to stack_size; of two equally close divisors
\* the smaller is returned; a stack_size that divides num_slices is
\* returned unchanged.
C30_TerminatesWithNearestDivisor ==
    /\ []C30_Returned
    /\ <>(stack_pc = "done")
\* C30 witness: both loops have run and the two bounds are equally close
\* (4 and 6 around 5, for 12 slices); the lower one is returned.
C30_Witness ==
    /\ stack_pc = "done"
    /\ stack_size = 5 /\ num_slices = 12
    /\ lower_bound = 4 /\ upper_bound = 6
    /\ stack_ret = 4

\* =================================================================
\* Properties of the container's window accumulators (checked under SpecEst)
\* =================================================================
\* C28: in a run without a communicator Estimators.print_step returns
\* without raising at every step; at a window boundary the
\* back-propagation and the ITCF print_step write the row of the local
\* buffer and reset it, as Mixed.print_step does.
C28_SerialPrintStepReturns ==
    [][(pc = "print_step" /\ comm = "None" /\ rank_raised[0] = "none") =>
          /\ rank_raised'[0] = "none"
          /\ (bp_on /\ step % bp_nmax = 0) =>
                /\ bp_pushed' = <<BP_row(bp_estimates[0], 1)>>
                /\ bp_estimates'[0] = BP_zero_buffer(trial_type)
          /\ step % itcf_nprop_tot = 0 =>
                /\ Len(itcf_pushed') = 1
                /\ spgf'[0] = ITCF_zero_spgf(itcf_nmax)
      ]_vars
\* what holds without a communicator: Mixed.print_step writes its row,
\* and a call at a step inside both windows returns
C28_SerialMixedReturns ==
    [][(pc = "print_step" /\ comm = "None" /\ rank_raised[0] = "none"
        /\ mixed_output_index < Mixed_output_rows) =>
          /\ Len(mixed_pushed') = 1
          /\ ((~bp_on \/ step % bp_nmax # 0) /\ step % itcf_nprop_tot # 0) =>
                rank_raised'[0] = "none"
      ]_vars

\* C29: with back propagation (window nbp >= 1) and the ITCF (Nmax >= 1
\* slices) both configured, every step s > 0 at which the ITCF fires is a
\* step at which the back propagation fires, so that the back-propagated
\* state the ITCF reads was refreshed by the same call of
\* Estimators.update.
C29_ITCFReadsFreshState ==
    [][(pc = "update" /\ bp_on /\ bp_nmax >= 1 /\ itcf_nmax >= 1 /\ step > 0) =>
          \A r \in Ranks :
              itcf_fired'[r] =>
                  /\ step % bp_nmax = 0
                  /\ bp_estimates'[r] # bp_estimates[r]
      ]_vars
\* what holds: when both fire at a step, the ITCF reads the state the
\* back propagation has just stored
C29_OrderWithinUpdate ==
    [][(pc = "update" /\ bp_on /\ bp_nmax >= 1 /\ itcf_nmax >= 1
        /\ step % bp_nmax = 0) =>
          \A r \in Ranks : \A i \in 1 .. Len(itcf_seen'[r]) :
              itcf_seen'[r][i].phi_bp =
                  ITCF_walker(CHOOSE w \in {EstSamples[1], EstSamples[2]} :
                                  w.weight = itcf_seen'[r][i].weight,
                              wb_phi(trial_type,
                                     (CHOOSE w \in {EstSamples[1], EstSamples[2]} :
                                         w.weight = itcf_seen'[r][i].weight).bp),
                              itcf_seen'[r][i].phi_init, itcf_nmax).phi_bp
      ]_vars
\* the ITCF fires at a step off the back-propagation window: step 3 of a
\* run with nbp = 2 and Nmax = 1
C29_StaleStateRead ==
    /\ bp_on /\ bp_nmax = 2 /\ itcf_nmax = 1
    /\ step = 3 /\ pc = "print_step"
    /\ itcf_fired[0]

\* the right state of the walker w propagated k steps along its path
RECURSIVE C23_Right(_, _)
C23_Right(w, k) ==
    IF k = 0 THEN w.phi_init
    ELSE propagate_single(C23_Right(w, k - 1), w.configs[k])
\* the equal-time seed G(k,k): from the back-propagated left state and
\* the initial snapshot for k = 0, from the stored left state at the
\* (0-based) index len(psi_Ls) - k and the right state propagated k steps
\* for k >= 1
C23_Seed(w, k) ==
    IF k = 0 THEN initial_greens_function_uhf(w.phi_bp, w.phi_init)
    ELSE initial_greens_function_uhf(w.psi_Ls[Len(w.psi_Ls) - k + 1],
                                     C23_Right(w, k))
\* the running functions after the slices 1 .. k, slice k built with the
\* seed G(k-1,k-1)
RECURSIVE C23_Running(_, _)
C23_Advance(run, B, seed) ==
    increment_tau_uhf_stable(run.gr, run.ls, B, seed.gr, seed.ls)
C23_Running(w, k) ==
    IF k = 0
    THEN [gr |-> Identity(system.nbasis), ls |-> Identity(system.nbasis)]
    ELSE C23_Advance(C23_Running(w, k - 1), w.configs[k], C23_Seed(w, k - 1))
\* one slice holding weight * G.real
C23_SliceOf(weight, Ggr, Gls) ==
    accumulate_uhf(ITCF_zero_spgf(0), 0, weight, Ggr, Gls)[1]
C23_Broadcast(weight, run) ==
    C23_SliceOf(weight, <<Broadcast(run.gr[1]), Broadcast(run.gr[2])>>,
                <<Broadcast(run.ls[1]), Broadcast(run.ls[2])>>)
\* what one walker adds to the buffer: every slice 0 .. Nmax once
C23_Expected(w) ==
    Eager([idx \in 1 .. (Len(w.configs) + 1) |->
        IF idx = 1
        THEN C23_SliceOf(w.weight, C23_Seed(w, 0).gr, C23_Seed(w, 0).ls)
        ELSE C23_Broadcast(w.weight, C23_Running(w, idx - 1))])
RECURSIVE C23_Sum(_, _)
C23_Sum(sp, ws) ==
    IF ws = <<>> THEN sp
    ELSE C23_Sum(SpgfAdd(sp, C23_Expected(Head(ws))), Tail(ws))

\* C23: in the stable algorithm slice k+1 (k = 0 .. Nmax-1) of a walker
\* is built with the equal-time seed G(k,k): G(0,0) from the
\* back-propagated left state and the untouched initial snapshot, and for
\* k >= 1 the seed recomputed from the stored left state at index
\* len(psi_Ls) - k and the right state propagated exactly k steps; every
\* slice 0 .. Nmax is accumulated exactly once per walker, and no stored
\* left state and no seed serves two slices.
C23_StableSeeds ==
    [][ \A r \in Ranks :
          (pc = "update" /\ itcf_stable /\ itcf_fired'[r]) =>
              /\ spgf'[r] =
                    spgf_normalise(
                        C23_Sum(spgf[r], itcf_seen'[r]),
                        CSumSeq([i \in 1 .. Len(itcf_seen'[r]) |->
                                    CInt(itcf_seen'[r][i].weight)])[1])
              /\ \A i \in 1 .. Len(itcf_seen'[r]) :
                    /\ Len(itcf_seen'[r][i].psi_Ls) = itcf_nmax
                    /\ Len(itcf_seen'[r][i].configs) = itcf_nmax
      ]_vars
\* a stable firing over two slices whose two seeds, and whose two stored
\* left states, differ
C23_Witness ==
    /\ pc = "print_step" /\ itcf_stable /\ itcf_nmax = 2
    /\ itcf_fired[0] /\ Len(itcf_seen[0]) >= 1
    /\ C23_Seed(itcf_seen[0][1], 0) # C23_Seed(itcf_seen[0][1], 1)
    /\ itcf_seen[0][1].psi_Ls[1] # itcf_seen[0][1].psi_Ls[2]
    /\ spgf[0][3] # ITCF_zero_spgf(2)[3]

\* C26: in the stable spin-separated algorithm the two spin channels are
\* advanced independently: the running functions start as one
\* nbasis x nbasis identity per spin channel, and the new value of a
\* channel is computed from that channel's running function, seed and
\* propagator only, so that another up propagator along the path of a
\* walker changes none of its down-channel slices.
C26_UpPropagator == << <<CInt(2), CInt(0)>>, <<CInt(0), CInt(1)>> >>
C26_UpAltered(w) ==
    [w EXCEPT !.configs =
        Eager([k \in 1 .. Len(w.configs) |-> <<C26_UpPropagator, w.configs[k][2]>>])]
C26_Down(sp, ordering) == Eager([idx \in 1 .. Len(sp) |-> sp[idx][2][ordering]])
C26_DownAgrees(a, b, ordering) == C26_Down(a, ordering) = C26_Down(b, ordering)
C26_ChannelsIndependent ==
    itcf_stable =>
        \A r \in Ranks : \A i \in 1 .. Len(itcf_seen[r]) :
            /\ C26_DownAgrees(
                   spgf_stable_walker(ITCF_zero_spgf(itcf_nmax), itcf_seen[r][i]),
                   spgf_stable_walker(ITCF_zero_spgf(itcf_nmax),
                                      C26_UpAltered(itcf_seen[r][i])), 1)
            /\ C26_DownAgrees(
                   spgf_stable_walker(ITCF_zero_spgf(itcf_nmax), itcf_seen[r][i]),
                   spgf_stable_walker(ITCF_zero_spgf(itcf_nmax),
                                      C26_UpAltered(itcf_seen[r][i])), 2)
\* what holds: the down greater slices do not change with the up
\* propagator, and in the unstable algorithm no down slice does
C26_DownGreaterIndependent ==
    \A r \in Ranks : \A i \in 1 .. Len(itcf_seen[r]) :
        IF itcf_stable
        THEN C26_DownAgrees(
                 spgf_stable_walker(ITCF_zero_spgf(itcf_nmax), itcf_seen[r][i]),
                 spgf_stable_walker(ITCF_zero_spgf(itcf_nmax),
                                    C26_UpAltered(itcf_seen[r][i])), 1)
        ELSE /\ C26_DownAgrees(
                   spgf_unstable_walker(ITCF_zero_spgf(itcf_nmax), itcf_seen[r][i]),
                   spgf_unstable_walker(ITCF_zero_spgf(itcf_nmax),
                                        C26_UpAltered(itcf_seen[r][i])), 1)
             /\ C26_DownAgrees(
                   spgf_unstable_walker(ITCF_zero_spgf(itcf_nmax), itcf_seen[r][i]),
                   spgf_unstable_walker(ITCF_zero_spgf(itcf_nmax),
                                        C26_UpAltered(itcf_seen[r][i])), 2)
\* the down lesser slice 1 of a stable walker changes with the up
\* propagator of the first configuration
C26_DownLesserFollowsUp ==
    /\ itcf_stable /\ itcf_nmax >= 1 /\ pc = "print_step" /\ itcf_fired[0]
    /\ spgf_stable_walker(ITCF_zero_spgf(itcf_nmax), itcf_seen[0][1])[2][2][2] #
           spgf_stable_walker(ITCF_zero_spgf(itcf_nmax),
                              C26_UpAltered(itcf_seen[0][1]))[2][2][2]

\* =================================================================
\* Properties of a run counted from step 0 (checked under SpecEstZero)
\* =================================================================
\* C27: for the back-propagation and the ITCF accumulators update and
\* print_step fire at the same steps, step 0 included: whenever update
\* has accumulated at a step, print_step called at that step emits a row
\* and resets the buffers, so that nothing accumulated at step 0 is left
\* for the row of the first window boundary.
C27_FireAtSameSteps ==
    [][(pc = "print_step" /\ Est_CallReturns) =>
          /\ (bp_on /\ bp_nmax > 0 /\ step % bp_nmax = 0) =>
                /\ Len(bp_pushed') = 1
                /\ \A r \in Ranks : bp_estimates'[r] = BP_zero_buffer(trial_type)
          /\ (\A r \in Ranks : itcf_fired[r]) =>
                /\ Len(itcf_pushed') = 1
                /\ \A r \in Ranks : spgf'[r] = ITCF_zero_spgf(itcf_nmax)
      ]_vars
\* what holds from step 0 on: a print_step at a step s > 0 at which
\* update has accumulated emits and resets
C27_FireAtSameLaterSteps ==
    [][(pc = "print_step" /\ Est_CallReturns /\ step > 0) =>
          /\ (bp_on /\ bp_nmax > 0 /\ step % bp_nmax = 0) =>
                /\ Len(bp_pushed') = 1
                /\ \A r \in Ranks : bp_estimates'[r] = BP_zero_buffer(trial_type)
          /\ (\A r \in Ranks : itcf_fired[r]) =>
                /\ Len(itcf_pushed') = 1
                /\ \A r \in Ranks : spgf'[r] = ITCF_zero_spgf(itcf_nmax)
      ]_vars
\* the accumulation of step 0 still in both buffers when update is
\* called at the first window boundary, no row written
C27_CarriedFromStepZero ==
    /\ comm = "MPI" /\ Alive(rank_raised) = Ranks
    /\ bp_on /\ bp_nmax = 1 /\ itcf_nmax = 1
    /\ step = 1 /\ pc = "update"
    /\ bp_estimates[0] # BP_zero_buffer(trial_type)
    /\ spgf[0] # ITCF_zero_spgf(itcf_nmax)
    /\ bp_output_index = 0 /\ itcf_output_index = 0

====
